---- MODULE Spec2Model ----
(***************************************************************************)
(* Registration bot: the persistence layer (database.py), the eligibility  *)
(* and validation functions (utils.py, modals.py) and the three-stage      *)
(* registration flow (views.py, modals.py).                                *)
(*                                                                         *)
(* Strings are sequences of one-character strings, so that trimming,       *)
(* digit stripping and pattern matching are computed, not assumed.         *)
(***************************************************************************)
EXTENDS Integers, Sequences, FiniteSets, TLC

VARIABLES
    regs,        \* table registrations: sequence of rows, in insertion order
    logs,        \* table admin_logs: sequence of entries, in insertion order
    dbInst,      \* database.db is not None (DatabaseManager constructed)
    connAlive,   \* self.connection is usable (socket open, server answering)
    stale,       \* time.time() - self.last_ping > 300
    serverUp,    \* environment: the MySQL server accepts connections
    faults,      \* environment: what happens to the next statements sent
    viewsLoaded, \* bot.add_view(RegistrationView()) has run
    roles,       \* environment: the role kinds each member holds
    sessions,    \* the UI objects of each registration flow
    delViews,    \* the members a live DeleteConfirmationView is about
    ev,          \* the last interaction handled: handler, outcome, what it did
    lastCall,    \* the last storage call made through utils: statement, trace, result
    now,         \* environment: the wall clock, in seconds
    boot,        \* what on_ready did: "none" (not run), "failed", "ok"
    left,        \* the members a kick removed from the guild
    classified,  \* the last result of get_unregistered_members_with_teams
    grant,       \* the role-assignment command in progress
    kick,        \* the kick command in progress and its ConfirmationView
    csv,         \* the file at config.TEMP_CSV_FILE
    keep,        \* the db_keepalive task: running, its last run, self.last_ping
    threads      \* the storage method each thread of the process is inside

\* the variables of the guild-wide commands and of the export
adminVars == <<left, classified, grant, kick, csv, keep, threads>>

vars == <<regs, logs, dbInst, connAlive, stale, serverUp, faults, viewsLoaded,
          roles, sessions, delViews, ev, lastCall, now, boot, adminVars>>

----------------------------------------------------------------------------
(* Bounds of the model *)

MaxFaults == 2
MaxLog == 2
\* audit entries one session and one deletion can leave
MaxSessionLog == 3
MaxCommitFaults == 4
MaxTime == 900
MaxLeft == 1
MaxKickTime == 90
MaxKeepTime == 600

Actors == {"u1", "u2"}
Sessions == {1, 2}
MemberIds == {"u1", "u2", "m1", "m2"}

----------------------------------------------------------------------------
(* Strings *)

Digits == {"0", "1", "2", "3", "4", "5", "6", "7", "8", "9"}
Letters == {"a", "b", "c", "o", "m", "A", "B"}
Whitespace == {" "}

RECURSIVE LStrip(_)
LStrip(s) == IF s # <<>> /\ Head(s) \in Whitespace THEN LStrip(Tail(s)) ELSE s

RECURSIVE RStrip(_)
RStrip(s) ==
    IF s # <<>> /\ s[Len(s)] \in Whitespace THEN RStrip(SubSeq(s, 1, Len(s) - 1)) ELSE s

\* str.strip()
Strip(s) == RStrip(LStrip(s))

\* str.isdigit(): non-empty and every character a digit
IsDigitStr(s) == s # <<>> /\ \A i \in 1..Len(s) : s[i] \in Digits

IsDigitChar(c) == c \in Digits

\* the phone kept as typed
KeepAllCharacters(s) == s

\* re.sub(r'[^\d]', '', phone)
StripNonDigits(s) == SelectSeq(s, IsDigitChar)

\* the elements of a sequence
Range(s) == {s[i] : i \in 1..Len(s)}

\* s lists its elements once each
NoRepeat(s) == Cardinality(Range(s)) = Len(s)

AllIn(s, S) == \A i \in 1..Len(s) : s[i] \in S

EmailLocalChars == Letters \cup Digits \cup {".", "_", "%", "+", "-"}
EmailDomainChars == Letters \cup Digits \cup {".", "-"}

\* re.match(r'^[a-zA-Z0-9._%+-]+@[a-zA-Z0-9.-]+\.[a-zA-Z]{2,}$', s)
EmailMatches(s) ==
    \E i \in 1..Len(s) : \E j \in 1..Len(s) :
        /\ s[i] = "@"
        /\ s[j] = "."
        /\ i + 1 < j
        /\ i > 1
        /\ AllIn(SubSeq(s, 1, i - 1), EmailLocalChars)
        /\ AllIn(SubSeq(s, i + 1, j - 1), EmailDomainChars)
        /\ Len(s) - j >= 2
        /\ AllIn(SubSeq(s, j + 1, Len(s)), Letters)

----------------------------------------------------------------------------
(* config.py *)

TEAMS == {"IT", "Design", "Marketing", "B2B", "OPS", "HR"}
EXCLUDED_ROLE_IDS == {"excluded"}
REGISTRATION_TIMEOUT == 300

\* modals.py: ContactInfoView is constructed with timeout=300
ContactInfoViewTimeout == 300

EXISTING_TEAM_ROLE_IDS == {"team"}
NOT_RENEWED_ROLE_ID == "not_renewed"
UNVERIFIED_ROLE_ID == "unverified"

\* views.py: ConfirmationView is constructed with timeout=60
ConfirmationViewTimeout == 60

\* @tasks.loop(seconds=120), and the staleness threshold of ensure_connection
KeepaliveSeconds == 120
PingAfterSeconds == 300

\* guild.members, in the order the guild lists them
GuildMembers == <<"u1", "u2", "m1", "m2">>

\* the accounts with member.bot set
Bots == {"m2"}

\* the rule that would also exempt holders of an existing-team role
EligibilityExemptsTeamRoles(userRoles) ==
    IF userRoles \cap (EXCLUDED_ROLE_IDS \cup {"team"}) # {}
    THEN <<FALSE, "You're not concerned with this registration">>
    ELSE <<TRUE, "">>

\* utils.check_registration_eligibility: <<is_eligible, reason>>
check_registration_eligibility(userRoles) ==
    IF userRoles \cap EXCLUDED_ROLE_IDS # {}
    THEN <<FALSE, "You're not concerned with this registration">>
    ELSE <<TRUE, "">>

----------------------------------------------------------------------------
(* database.py: the connection *)

\* the persistence layer's state, as one value the methods transform
DB == [regs |-> regs, logs |-> logs, alive |-> connAlive, stale |-> stale,
       faults |-> faults, up |-> serverUp]

\* DatabaseManager.connect: TRUE when pymysql.connect succeeds (else it raises)
ConnectOk(d) == d.up

Connect(d) == IF ConnectOk(d) THEN [d EXCEPT !.alive = TRUE, !.stale = FALSE] ELSE d

\* DatabaseManager.ensure_connection: self.connection is never None once the
\* manager exists; a stale connection is pinged with reconnect=True, and a
\* failing ping falls back to connect(), whose exception is not caught.
EnsureConnection(d) ==
    IF ~d.stale THEN [d |-> d, raised |-> FALSE]
    ELSE IF d.alive THEN [d |-> [d EXCEPT !.stale = FALSE], raised |-> FALSE]
    ELSE IF d.up THEN [d |-> [d EXCEPT !.alive = TRUE, !.stale = FALSE], raised |-> FALSE]
    ELSE [d |-> Connect(d), raised |-> ~ConnectOk(d)]

----------------------------------------------------------------------------
(* database.py: the statements *)

field_mapping == {"first_name", "last_name", "email", "phone", "team",
                  "student_id", "year_major", "photo"}

RowsOf(rs, id) == {i \in 1..Len(rs) : rs[i].discord_id = id}

RECURSIVE WithoutId(_, _)
WithoutId(rs, id) ==
    IF rs = <<>> THEN <<>>
    ELSE IF Head(rs).discord_id = id THEN WithoutId(Tail(rs), id)
    ELSE <<Head(rs)>> \o WithoutId(Tail(rs), id)

\* the table without the constraint
NoUniqueConstraint(rs, row) == FALSE

\* the UNIQUE constraint on registrations.discord_id
UniqueViolation(rs, row) == RowsOf(rs, row.discord_id) # {}

TeamCounts(rs) ==
    [t \in {rs[i].team : i \in 1..Len(rs)} |-> Cardinality({i \in 1..Len(rs) : rs[i].team = t})]

\* a table whose new rows would come before the stored ones
InsertLogFirst(l, entry) == <<entry>> \o l

\* INSERT INTO admin_logs: the entry gets the next AUTO_INCREMENT id
InsertLog(l, entry) == Append(l, entry)

\* The server executing one statement: <<result, value, registrations, admin_logs>>
Execute(d, stmt) ==
    CASE stmt.op = "INSERT_REG" ->
            IF UniqueViolation(d.regs, stmt.row)
            THEN [res |-> "error", val |-> 0, d |-> d]
            ELSE [res |-> "ok", val |-> 1, d |-> [d EXCEPT !.regs = Append(@, stmt.row)]]
      [] stmt.op = "SELECT_1" ->
            [res |-> "ok", val |-> RowsOf(d.regs, stmt.id) # {}, d |-> d]
      [] stmt.op = "SELECT_ROW" ->
            [res |-> "ok",
             val |-> IF RowsOf(d.regs, stmt.id) = {} THEN <<>>
                     ELSE <<d.regs[CHOOSE i \in RowsOf(d.regs, stmt.id) :
                                     \A j \in RowsOf(d.regs, stmt.id) : i <= j]>>,
             d |-> d]
      [] stmt.op = "SELECT_IDS" ->
            [res |-> "ok", val |-> {d.regs[i].discord_id : i \in 1..Len(d.regs)}, d |-> d]
      [] stmt.op = "STATS" ->
            [res |-> "ok",
             val |-> [total |-> Len(d.regs), teams |-> TeamCounts(d.regs),
                      latest |-> IF d.regs = <<>> THEN <<>> ELSE <<d.regs[Len(d.regs)]>>],
             d |-> d]
      [] stmt.op = "DELETE" ->
            [res |-> "ok", val |-> Cardinality(RowsOf(d.regs, stmt.id)),
             d |-> [d EXCEPT !.regs = WithoutId(@, stmt.id)]]
      [] stmt.op = "UPDATE" ->
            \* rowcount counts the rows the UPDATE changed
            [res |-> "ok",
             val |-> Cardinality({i \in RowsOf(d.regs, stmt.id) :
                                     d.regs[i][stmt.field] # stmt.value}),
             d |-> [d EXCEPT !.regs = [i \in 1..Len(@) |->
                        IF @[i].discord_id = stmt.id
                        THEN [@[i] EXCEPT ![stmt.field] = stmt.value] ELSE @[i]]]]
      [] stmt.op = "EXPORT" ->
            [res |-> "ok", val |-> d.regs, d |-> d]
      [] stmt.op = "INSERT_LOG" ->
            [res |-> "ok", val |-> 1, d |-> [d EXCEPT !.logs = InsertLog(@, stmt.entry)]]

\* cursor.execute + commit on the connection as it is: a dead connection raises
\* OperationalError/InterfaceError; on a live one the environment decides
\* (faults) whether the statement goes through, the connection drops before the
\* server applied it, the reply is lost after the server applied it (autocommit),
\* or the server raises a non-transient error.
Send(d, stmt) ==
    IF ~d.alive THEN [res |-> "transient", val |-> 0, d |-> d]
    ELSE LET Outcome(f, d1, x) ==
                CASE f = "ok" -> x
                  [] f = "drop" ->
                        [res |-> "transient", val |-> 0, d |-> [d1 EXCEPT !.alive = FALSE]]
                  [] f = "lost" ->
                        [res |-> "transient", val |-> 0,
                         d |-> [(IF x.res = "ok" THEN x.d ELSE d1) EXCEPT !.alive = FALSE]]
                  [] f = "error" -> [res |-> "error", val |-> 0, d |-> d1]
             Sent(f, d1) == Outcome(f, d1, Execute(d1, stmt))
         IN Sent(IF d.faults = <<>> THEN "ok" ELSE Head(d.faults),
                 [d EXCEPT !.faults = IF @ = <<>> THEN <<>> ELSE Tail(@)])

\* what each method returns when it gives up
FailVal(stmt) ==
    CASE stmt.op \in {"INSERT_REG", "SELECT_1", "DELETE", "EXPORT"} -> FALSE
      [] stmt.op = "SELECT_ROW" -> <<>>
      [] stmt.op = "SELECT_IDS" -> {}
      [] stmt.op = "STATS" -> [total |-> 0, teams |-> <<>>, latest |-> <<>>]
      [] stmt.op = "UPDATE" -> <<FALSE, "Error updating registration">>
      [] stmt.op = "INSERT_LOG" -> "None"

\* what each method returns when its statement went through
RetVal(stmt, val) ==
    CASE stmt.op = "INSERT_REG" -> TRUE
      [] stmt.op = "DELETE" -> val > 0
      [] stmt.op = "UPDATE" ->
            IF val > 0 THEN <<TRUE, "Registration updated successfully">>
            ELSE <<FALSE, "User not found in registration database">>
      [] stmt.op = "EXPORT" -> val # <<>>
      [] stmt.op = "INSERT_LOG" -> "None"
      [] OTHER -> val

ExecTok(res) ==
    CASE res = "ok" -> "exec:ok"
      [] res = "transient" -> "exec:transient"
      [] res = "error" -> "exec:error"

\* the body of the try block of one attempt
Attempt(d, stmt) ==
    LET Executed(x) ==
            [res |-> x.res, val |-> IF x.res = "ok" THEN RetVal(stmt, x.val) ELSE 0,
             d |-> x.d, trace |-> <<ExecTok(x.res)>>]
        Ensured(e) ==
            IF e.raised
            THEN [res |-> "transient", val |-> 0, d |-> e.d, trace |-> <<"ensure:raise">>]
            ELSE IF stmt.op = "UPDATE" /\ stmt.field \notin field_mapping
            THEN [res |-> "return", val |-> <<FALSE, "Invalid field">>, d |-> e.d,
                  trace |-> <<"invalid_field">>]
            ELSE Executed(Send(e.d, stmt))
    IN Ensured(EnsureConnection(d))

\* the loop that would treat every exception as transient
RECURSIVE RetryLoopRetriesErrors(_, _, _)
RetryLoopRetriesErrors(d, stmt, attempt) ==
    LET Handle(a) ==
            IF a.res \in {"ok", "return"}
            THEN [d |-> a.d, ret |-> a.val, trace |-> a.trace]
            ELSE LET c == Connect(a.d)
                     tr == a.trace
                           \o <<IF ConnectOk(a.d) THEN "connect:ok" ELSE "connect:fail">>
                 IN IF attempt = 1
                    THEN [d |-> c, ret |-> FailVal(stmt), trace |-> tr]
                    ELSE [RetryLoopRetriesErrors(c, stmt, attempt + 1) EXCEPT
                            !.trace = tr \o @]
    IN Handle(Attempt(d, stmt))

\* for attempt in range(2): try ... except (OperationalError, InterfaceError) ...
\* except Exception ...
RECURSIVE RetryLoop(_, _, _)
RetryLoop(d, stmt, attempt) ==
    LET Handle(a) ==
            IF a.res \in {"ok", "return"}
            THEN [d |-> a.d, ret |-> a.val, trace |-> a.trace]
            ELSE IF a.res = "transient"
            THEN LET c == Connect(a.d)
                     tr == a.trace
                           \o <<IF ConnectOk(a.d) THEN "connect:ok" ELSE "connect:fail">>
                 IN IF attempt = 1
                    THEN [d |-> c, ret |-> FailVal(stmt), trace |-> tr]
                    ELSE [RetryLoop(c, stmt, attempt + 1) EXCEPT !.trace = tr \o @]
            ELSE [d |-> a.d, ret |-> FailVal(stmt), trace |-> a.trace]
    IN Handle(Attempt(d, stmt))

\* a wrapped method of DatabaseManager
Wrapped(d, stmt) == RetryLoop(d, stmt, 0)

\* utils.*: db = get_db(); return db.method(...). get_db constructs the manager
\* on first use; DatabaseManager.__init__ connects and its exception propagates.
UtilsCall(d, inst, stmt) ==
    IF inst THEN Wrapped(d, stmt) @@ [raised |-> FALSE, inst |-> TRUE]
    ELSE IF ConnectOk(d)
    THEN Wrapped(Connect(d), stmt) @@ [raised |-> FALSE, inst |-> TRUE]
    ELSE [d |-> d, ret |-> "raised", trace |-> <<"get_db:raise">>, raised |-> TRUE,
          inst |-> FALSE]

----------------------------------------------------------------------------
(* database.py: export_to_csv *)

\* fieldnames, and the columns of the SELECT, in this order
ExportColumns == <<"last_name", "first_name", "photo", "year_major", "student_id", "phone",
                   "email", "discord_id", "team", "timestamp">>

DigitChars == <<"0", "1", "2", "3", "4", "5", "6", "7", "8", "9">>

\* the decimal digits of a number
RECURSIVE Decimal(_)
Decimal(n) ==
    IF n < 10 THEN <<DigitChars[n + 1]>>
    ELSE Decimal(n \div 10) \o <<DigitChars[(n % 10) + 1]>>

\* datetime.isoformat() of the stored DATETIME: date, "T", time; the model's
\* clock counts seconds, so the text is "T" and the seconds
IsoFormat(ts) == <<"T">> \o Decimal(ts)

\* the text csv.DictWriter receives for a column: the stored string, the
\* timestamp as isoformat; an id or a team name is one symbol
CellText(row, col) ==
    IF col = "timestamp" THEN IsoFormat(row.timestamp)
    ELSE IF col \in {"discord_id", "team"} THEN <<row[col]>>
    ELSE row[col]

CellsOf(row) == [j \in 1..Len(ExportColumns) |-> CellText(row, ExportColumns[j])]

HeaderCells == [j \in 1..Len(ExportColumns) |-> <<ExportColumns[j]>>]

\* the characters that make csv.writer quote a field (QUOTE_MINIMAL)
CsvSpecial == {",", "\"", "\r", "\n"}

RECURSIVE DoubleQuotes(_)
DoubleQuotes(s) ==
    IF s = <<>> THEN <<>>
    ELSE (IF Head(s) = "\"" THEN <<"\"", "\"">> ELSE <<Head(s)>>) \o DoubleQuotes(Tail(s))

\* the writer that would never quote
CsvFieldRaw(s) == s

\* csv.writer, excel dialect: a field with a special character is put in
\* quotes, with each quote doubled
CsvField(s) ==
    IF Range(s) \cap CsvSpecial # {} THEN <<"\"">> \o DoubleQuotes(s) \o <<"\"">> ELSE s

RECURSIVE JoinFields(_)
JoinFields(cells) ==
    IF Len(cells) = 1 THEN CsvField(cells[1])
    ELSE CsvField(cells[1]) \o <<",">> \o JoinFields(Tail(cells))

\* writer.writerow: the fields joined by commas, then "\r\n"
CsvLine(cells) == JoinFields(cells) \o <<"\r", "\n">>

RECURSIVE CsvLines(_)
CsvLines(rows) ==
    IF rows = <<>> THEN <<>> ELSE CsvLine(CellsOf(Head(rows))) \o CsvLines(Tail(rows))

\* writeheader, then one writerow per fetched row
CsvFile(rows) == CsvLine(HeaderCells) \o CsvLines(rows)

\* the rows in every order
Orderings(rs) ==
    {[j \in 1..Len(rs) |-> rs[p[j]]] :
        p \in {q \in [1..Len(rs) -> 1..Len(rs)] : \A j, k \in 1..Len(rs) : q[j] = q[k] => j = k}}

\* the SELECT without ORDER BY
AnyOrder(rs) == Orderings(rs)

\* ORDER BY timestamp DESC: rows with equal timestamps come in any order
OrderedByTimestampDesc(rs) ==
    {s \in Orderings(rs) : \A j, k \in 1..Len(s) : j < k => s[j].timestamp >= s[k].timestamp}

\* export_to_csv after a call that returned ret: the file is written when rows
\* were fetched, else it is left as it was
FilesAfter(stmt, raised, ret, rs, file) ==
    IF stmt.op = "EXPORT" /\ ~raised /\ ret
    THEN {CsvFile(rows) : rows \in OrderedByTimestampDesc(rs)}
    ELSE {file}

----------------------------------------------------------------------------
(* modals.py, views.py: what the handlers compute *)

Seq1(cond, msg) == IF cond THEN <<msg>> ELSE <<>>

FirstOnly(errors) == IF errors = <<>> THEN <<>> ELSE <<Head(errors)>>

\* the validation that would stop at the first failing field
Stage1ErrorsFirstOnly(in) ==
    FirstOnly(
        Seq1(Strip(in.nom) = <<>>, "Last Name cannot be empty")
        \o Seq1(Strip(in.prenom) = <<>>, "First Name cannot be empty")
        \o Seq1(Strip(in.annee_specialite) = <<>>, "Year + Field of Study cannot be empty")
        \o Seq1(Strip(in.photo) = <<>>, "Photo URL cannot be empty")
        \o Seq1(~IsDigitStr(Strip(in.matricule)) \/ Len(Strip(in.matricule)) < 5,
                "Student ID cannot be empty"))

\* RegistrationModal.on_submit: the validation block, errors in the order the
\* code appends them
Stage1Errors(in) ==
    Seq1(Strip(in.nom) = <<>>, "Last Name cannot be empty")
    \o Seq1(Strip(in.prenom) = <<>>, "First Name cannot be empty")
    \o Seq1(Strip(in.annee_specialite) = <<>>, "Year + Field of Study cannot be empty")
    \o Seq1(Strip(in.photo) = <<>>, "Photo URL cannot be empty")
    \o (IF Strip(in.matricule) = <<>> THEN <<"Student ID cannot be empty">>
        ELSE IF ~IsDigitStr(Strip(in.matricule))
        THEN <<"Student ID must contain only numbers (no letters, spaces, or symbols)">>
        ELSE IF Len(Strip(in.matricule)) < 5
        THEN <<"Student ID must be at least 5 digits long">>
        ELSE <<>>)

\* the validators RegistrationModal.on_submit runs
Stage1Checks == {"nom:empty", "prenom:empty", "annee_specialite:empty", "photo:empty",
                 "matricule:empty", "matricule:digits", "matricule:min5"}

\* the values ContactInfoView is constructed with
Stage1Data(in) ==
    [nom |-> Strip(in.nom), prenom |-> Strip(in.prenom), photo |-> Strip(in.photo),
     annee_specialite |-> Strip(in.annee_specialite), matricule |-> Strip(in.matricule)]

\* the validation that would leave the phone number unchecked
Stage2ErrorsEmailOnly(in) ==
    IF Strip(in.email) = <<>> THEN <<"Email address cannot be empty">>
    ELSE IF ~EmailMatches(Strip(in.email))
    THEN <<"Please enter a valid email address (e.g., name@example.com)">>
    ELSE <<>>

\* ContactInfoModal.on_submit: the validation block
Stage2Errors(in) ==
    (IF StripNonDigits(in.phone) = <<>> THEN <<"Phone number cannot be empty">>
     ELSE IF Len(StripNonDigits(in.phone)) # 10
     THEN <<"Phone number must be exactly 10 digits long">>
     ELSE <<>>)
    \o (IF Strip(in.email) = <<>> THEN <<"Email address cannot be empty">>
        ELSE IF ~EmailMatches(Strip(in.email))
        THEN <<"Please enter a valid email address (e.g., name@example.com)">>
        ELSE IF Len(Strip(in.email)) > 100
        THEN <<"Email address is too long (maximum 100 characters)">>
        ELSE <<>>)

\* the validators ContactInfoModal.on_submit runs
Stage2Checks == {"phone:empty", "phone:10digits", "email:empty", "email:pattern", "email:max100"}

\* TeamSelectionView.__init__: registration_data
Stage2Data(basic, in, id) ==
    basic @@ [phone |-> StripNonDigits(in.phone), email |-> Strip(in.email), discord_id |-> id,
              timestamp |-> now]

\* the INSERT that would bind the two names to each other's column
RowOfNamesSwapped(data) ==
    [discord_id |-> data.discord_id, last_name |-> data.prenom, first_name |-> data.nom,
     photo |-> data.photo, year_major |-> data.annee_specialite,
     student_id |-> data.matricule, phone |-> data.phone, email |-> data.email,
     team |-> data.team, timestamp |-> data.timestamp]

\* DatabaseManager.save_registration: the columns of the INSERT
RowOf(data) ==
    [discord_id |-> data.discord_id, last_name |-> data.nom, first_name |-> data.prenom,
     photo |-> data.photo, year_major |-> data.annee_specialite,
     student_id |-> data.matricule, phone |-> data.phone, email |-> data.email,
     team |-> data.team, timestamp |-> data.timestamp]

\* utils.is_user_registered
IsUserRegistered(d, id) == Wrapped(d, [op |-> "SELECT_1", id |-> id])

\* the two checks every flow handler starts with: eligibility, then
\* already-registered
PreChecks(d, userRoles, id) ==
    IF ~check_registration_eligibility(userRoles)[1]
    THEN [pass |-> FALSE, outcome |-> "ineligible", d |-> d]
    ELSE LET Checked(r) ==
                IF r.ret THEN [pass |-> FALSE, outcome |-> "already_registered", d |-> r.d]
                ELSE [pass |-> TRUE, outcome |-> "pass", d |-> r.d]
         IN Checked(IsUserRegistered(d, id))

\* number of times a call sent its statement
Execs(trace) ==
    Cardinality({i \in 1..Len(trace) : trace[i] \in {"exec:ok", "exec:transient", "exec:error"}})

\* TeamSelectionView.handle_team_selection, after the two checks: save, then log
SaveAndLog(d, data, team) ==
    LET Saved(sv) ==
            IF sv.ret
            THEN [outcome |-> "committed", writes |-> Execs(sv.trace),
                  d |-> Wrapped(sv.d, [op |-> "INSERT_LOG",
                                       entry |-> [action |-> "REGISTRATION",
                                                  admin_discord_id |-> data.discord_id]]).d]
            ELSE [outcome |-> "save_failed", writes |-> Execs(sv.trace), d |-> sv.d]
    IN Saved(Wrapped(d, [op |-> "INSERT_REG", row |-> RowOf([team |-> team] @@ data)]))

\* a check that lets every member through
EveryoneAdmin(userRoles) == TRUE

\* utils.has_admin_permissions (config.ADMIN_USER_IDS is empty)
has_admin_permissions(userRoles) == "admin" \in userRoles

----------------------------------------------------------------------------
(* Inputs *)

Ok1 == [nom |-> <<"A", " ">>, prenom |-> <<"B">>, photo |-> <<"c">>,
        annee_specialite |-> <<"3">>, matricule |-> <<" ", "1", "2", "3", "4", "5">>]

Alt1 == [nom |-> <<"C">>, prenom |-> <<" ", "D", " ">>, photo |-> <<"e">>,
         annee_specialite |-> <<"4">>, matricule |-> <<"5", "4", "3", "2", "1">>]

\* basic-info submissions: valid, one field invalid, several invalid
Stage1Inputs ==
    {Ok1, Alt1,
     [Ok1 EXCEPT !.nom = <<" ">>],
     [Ok1 EXCEPT !.prenom = <<" ">>],
     [Ok1 EXCEPT !.photo = <<" ">>],
     [Ok1 EXCEPT !.annee_specialite = <<" ", " ">>],
     [Ok1 EXCEPT !.matricule = <<" ">>],
     [Ok1 EXCEPT !.matricule = <<"1", "2", "a", "4", "5">>],
     [Ok1 EXCEPT !.matricule = <<"1", "2", "3", "4">>],
     [Ok1 EXCEPT !.nom = <<" ">>, !.matricule = <<"1", "2", "a", "4", "5">>],
     [nom |-> <<" ">>, prenom |-> <<" ">>, photo |-> <<" ">>, annee_specialite |-> <<" ">>,
      matricule |-> <<"1", " ", "2">>]}

Ok2 == [phone |-> <<"0", "1", "2", "3", "4", "5", "6", "7", "8", "9">>,
        email |-> <<"a", "@", "b", ".", "c", "o">>]

Alt2 == [phone |-> <<"9", "8", "7", "6", "5", "4", "3", "2", "1", "0">>,
         email |-> <<" ", "b", "@", "a", ".", "c", "o", "m">>]

\* contact submissions; the phone input takes exactly 10 characters
Stage2Inputs ==
    {Ok2, Alt2,
     [Ok2 EXCEPT !.phone = <<"0", "1", "-", "2", "3", "4", "5", "6", "7", "8">>],
     [Ok2 EXCEPT !.phone = <<"-", "-", "-", "-", "-", "-", "-", "-", "-", "-">>],
     [Ok2 EXCEPT !.email = <<" ">>],
     [Ok2 EXCEPT !.email = <<"a", "@", "b">>],
     [Ok2 EXCEPT !.email = <<"a", "@", "b", ".", "c">>],
     [phone |-> <<"0", "1", " ", "2", "3", "4", "5", "6", "7", "8">>,
      email |-> <<"a", "b", ".", "c", "o">>]}

Row(id, team) == RowOf(Stage2Data(Stage1Data(Ok1), Ok2, id) @@ [team |-> team])

ModifyInputs == {<<"team", "HR">>, <<"bogus_field", "HR">>}

LogEntry(action, by) == [action |-> action, admin_discord_id |-> by]

\* the statements the nine wrapped methods send
StoreCalls ==
    {[op |-> "INSERT_REG", row |-> Row("u1", "IT")]}
    \cup {[op |-> o, id |-> "u1"] : o \in {"SELECT_1", "SELECT_ROW", "DELETE"}}
    \cup {[op |-> o] : o \in {"SELECT_IDS", "STATS", "EXPORT"}}
    \cup {[op |-> "UPDATE", id |-> "u1", field |-> m[1], value |-> m[2]] : m \in ModifyInputs}
    \cup {[op |-> "INSERT_LOG", entry |-> LogEntry("SETUP", "u2")]}

\* the fault sequences the environment may schedule
RECURSIVE FaultSeqs(_, _)
FaultSeqs(kinds, n) ==
    IF n = 0 THEN {<<>>}
    ELSE LET shorter == FaultSeqs(kinds, n - 1)
         IN shorter \cup {Append(q, f) : q \in shorter, f \in kinds}

----------------------------------------------------------------------------
(* State *)

\* cviewAt, tviewAt: when the view was sent or last interacted with (its
\* timeout runs from there); last: the last activity of the session; pending:
\* component interactions of the team view sent and not yet dispatched
NoSession == [actor |-> "", stage |-> "Idle", modal |-> FALSE, cview |-> FALSE,
              cmodal |-> FALSE, tview |-> FALSE, basic |-> <<>>, data |-> <<>>,
              cviewAt |-> 0, tviewAt |-> 0, last |-> 0, pending |-> 0]

NoEvent == [h |-> "none", s |-> 0, actor |-> "", outcome |-> "none", existed |-> FALSE,
            writes |-> 0, input |-> <<>>, errors |-> <<>>, checks |-> {}, late |-> FALSE]

NoCall == [stmt |-> [op |-> "none"], ret |-> "None", trace |-> <<>>, raised |-> FALSE]

NoClassified == [done |-> FALSE, roster |-> <<>>, registered_ids |-> {},
                 members_with_teams |-> <<>>, members_without_teams |-> <<>>]

\* a bulk command: the list it iterates, the index of the member whose call is
\* awaited, the tallies, and the calls issued so far
NoFirstRun == [errors |-> 0, list |-> <<>>, read_ok |-> TRUE]

\* run: the first or the second run of the command; read_ok: the registered
\* ids were read; first: how the run before this one went
NoGrant == [phase |-> "idle", role |-> "", by |-> "", list |-> <<>>, i |-> 0, processed |-> 0,
            already_had |-> 0, errors |-> 0, calls |-> <<>>, had |-> <<>>,
            run |-> 0, read_ok |-> TRUE, first |-> NoFirstRun]

NoKick == [phase |-> "idle", by |-> "", list |-> <<>>, skipped |-> <<>>, bucket |-> <<>>,
           viewAt |-> 0, i |-> 0, processed |-> 0, errors |-> 0, calls |-> <<>>, passes |-> 0]

NoFile == <<"no file">>

\* the keepalive task before it is started; lastRun: when its body last ran,
\* last_ping: self.last_ping, lastProbe: when a ping or connect was last sent
NoKeepalive == [running |-> FALSE, lastRun |-> 0, last_ping |-> 0, lastProbe |-> 0]

\* the threads that use the one DatabaseManager: the event loop, which runs the
\* flow handlers, the confirmation views and the keepalive, and the workers of
\* the default executor that asyncio.to_thread hands the admin reads to
Threads == {"loop", "worker1", "worker2"}

\* a thread outside every storage method
Idle == [op |-> "none", pc |-> 0, id |-> "", total |-> 0, teams |-> <<>>, latest |-> <<>>,
         trace |-> <<>>]

NoThreads == [th \in Threads |-> Idle]

\* the process before on_ready, with nothing running
InitProcess ==
    /\ logs = <<>>
    /\ dbInst = FALSE
    /\ connAlive = FALSE
    /\ stale = FALSE
    /\ serverUp \in BOOLEAN
    /\ faults = <<>>
    /\ viewsLoaded = FALSE
    /\ sessions = [s \in Sessions |-> NoSession]
    /\ delViews = {}
    /\ ev = NoEvent
    /\ lastCall = NoCall
    /\ now = 0
    /\ boot = "none"
    /\ left = {}
    /\ classified = NoClassified
    /\ grant = NoGrant
    /\ kick = NoKick
    /\ csv = NoFile
    /\ keep = NoKeepalive
    /\ threads = NoThreads

Init ==
    /\ InitProcess
    /\ regs = <<>>
    /\ roles = [a \in MemberIds |->
                    IF a = "u1" THEN {"team"} ELSE IF a = "u2" THEN {"admin"} ELSE {}]

\* the persistence layer's variables after a call left it in state d
SetDB(d) ==
    /\ regs' = d.regs
    /\ logs' = d.logs
    /\ connAlive' = d.alive
    /\ stale' = d.stale
    /\ faults' = d.faults

Event(h, s, a, outcome) ==
    [NoEvent EXCEPT !.h = h, !.s = s, !.actor = a, !.outcome = outcome,
                    !.existed = RowsOf(regs, a) # {},
                    !.late = s \in Sessions /\ now - sessions[s].last > REGISTRATION_TIMEOUT]

----------------------------------------------------------------------------
(* The environment *)

ServerDown ==
    /\ serverUp
    /\ serverUp' = FALSE
    /\ connAlive' = FALSE
    /\ UNCHANGED <<adminVars, boot, now, regs, logs, dbInst, stale, faults, viewsLoaded, roles, sessions, delViews,
                   ev, lastCall>>

ServerUp ==
    /\ ~serverUp
    /\ serverUp' = TRUE
    /\ UNCHANGED <<adminVars, boot, now, regs, logs, dbInst, connAlive, stale, faults, viewsLoaded, roles, sessions,
                   delViews, ev, lastCall>>

\* the environment schedules what happens to the next statements sent
InjectFaults(kinds) ==
    /\ faults = <<>>
    /\ \E q \in FaultSeqs(kinds, MaxFaults) : q # <<>> /\ q[Len(q)] # "ok" /\ faults' = q
    /\ UNCHANGED <<adminVars, boot, now, regs, logs, dbInst, connAlive, stale, serverUp, viewsLoaded, roles, sessions,
                   delViews, ev, lastCall>>

\* more than 300 s pass since the last ping
TimePasses ==
    /\ dbInst
    /\ ~stale
    /\ stale' = TRUE
    /\ UNCHANGED <<adminVars, boot, now, regs, logs, dbInst, connAlive, serverUp, faults, viewsLoaded, roles, sessions,
                   delViews, ev, lastCall>>

\* a member is given or loses a role
RoleChange(a, r) ==
    /\ roles' = [roles EXCEPT ![a] = IF r \in @ THEN @ \ {r} ELSE @ \cup {r}]
    /\ UNCHANGED <<adminVars, boot, now, regs, logs, dbInst, connAlive, stale, serverUp, faults, viewsLoaded, sessions,
                   delViews, ev, lastCall>>

----------------------------------------------------------------------------
(* main.py: boot *)

\* if not db_keepalive.is_running(): db_keepalive.start(). The first run of
\* the loop is due at once; a manager constructed here has just connected.
StartKeepalive(k, inst, t) ==
    [k EXCEPT !.running = TRUE,
              !.lastRun = IF k.running THEN @ ELSE t - KeepaliveSeconds,
              !.last_ping = IF inst THEN @ ELSE t,
              !.lastProbe = IF inst THEN @ ELSE t]

\* on_ready: get_db() in a try block; on failure the handler returns before
\* add_view and before the keepalive is started, and the bot keeps running
OnReady ==
    /\ ~viewsLoaded
    /\ IF dbInst \/ ConnectOk(DB)
       THEN /\ dbInst' = TRUE
            /\ viewsLoaded' = TRUE
            /\ IF dbInst THEN UNCHANGED <<connAlive, stale>>
               ELSE connAlive' = TRUE /\ stale' = FALSE
       ELSE UNCHANGED <<dbInst, viewsLoaded, connAlive, stale>>
    /\ boot' = IF dbInst \/ ConnectOk(DB) THEN "ok" ELSE "failed"
    /\ keep' = IF dbInst \/ ConnectOk(DB) THEN StartKeepalive(keep, dbInst, now) ELSE keep
    /\ UNCHANGED <<left, classified, grant, kick, csv, threads, now, regs, logs, serverUp, faults,
                   roles,
                   sessions, delViews, ev, lastCall>>

----------------------------------------------------------------------------
(* The storage interface called on its own *)

StoreCall(stmt) ==
    /\ stmt.op = "INSERT_LOG" => Len(logs) < MaxLog
    /\ \E r \in {UtilsCall(DB, dbInst, stmt)} :
        /\ SetDB(r.d)
        /\ dbInst' = r.inst
        /\ lastCall' = [stmt |-> stmt, ret |-> r.ret, trace |-> r.trace, raised |-> r.raised]
        /\ csv' \in FilesAfter(stmt, r.raised, r.ret, regs, csv)
    /\ UNCHANGED <<left, classified, grant, kick, keep, threads, boot, now, serverUp, viewsLoaded,
                   roles,
                   sessions, delViews, ev>>

StoreCallAny == \E stmt \in StoreCalls : StoreCall(stmt)

StoreFaults == InjectFaults({"drop", "lost", "error"})

NextStore == OnReady \/ StoreCallAny \/ ServerDown \/ ServerUp \/ StoreFaults \/ TimePasses

SpecStore == Init /\ [][NextStore]_vars

----------------------------------------------------------------------------
(* views.py, modals.py: the registration flow *)

FlowActors == {"u1"}

\* RegistrationView.register_button: the member opens the basic-info form
RegisterButton(s, a) ==
    /\ viewsLoaded
    /\ ~sessions[s].modal
    /\ sessions[s].stage = "Idle" \/ (sessions[s].stage = "Start" /\ sessions[s].actor = a)
    /\ \E c \in {PreChecks(DB, roles[a], a)} :
        /\ SetDB(c.d)
        /\ sessions' = [sessions EXCEPT ![s] =
                IF c.pass
                THEN [@ EXCEPT !.actor = a, !.stage = "Start", !.modal = TRUE, !.last = now]
                ELSE @]
        /\ ev' = Event("register_button", s, a, IF c.pass THEN "modal_sent" ELSE c.outcome)
    /\ UNCHANGED <<adminVars, boot, now, dbInst, serverUp, viewsLoaded, roles, delViews, lastCall>>

\* RegistrationModal.on_submit
RegistrationModalSubmit(s, in) ==
    /\ sessions[s].modal
    /\ \E a \in {sessions[s].actor}, errors \in {Stage1Errors(in)} :
       \E c \in {PreChecks(DB, roles[a], a)} :
       \E outcome \in {IF ~c.pass THEN c.outcome
                        ELSE IF errors # <<>> THEN "invalid" ELSE "advanced"} :
        /\ SetDB(c.d)
        /\ sessions' = [sessions EXCEPT ![s] =
                IF outcome = "advanced"
                THEN [@ EXCEPT !.modal = FALSE, !.stage = "BasicInfoCaptured", !.cview = TRUE,
                               !.basic = Stage1Data(in), !.cviewAt = now, !.last = now]
                ELSE [@ EXCEPT !.modal = FALSE, !.last = now]]
        /\ ev' = [Event("RegistrationModal.on_submit", s, a, outcome) EXCEPT
                    !.input = in,
                    !.errors = IF c.pass THEN errors ELSE <<>>,
                    !.checks = IF c.pass THEN Stage1Checks ELSE {}]
    /\ UNCHANGED <<adminVars, boot, now, dbInst, serverUp, viewsLoaded, roles, delViews, lastCall>>

\* ContactInfoView.contact_button: opens the contact form, no check. The
\* callback is dispatched only while the view has not timed out; a dispatched
\* interaction restarts the view's timeout.
ContactButton(s) ==
    /\ sessions[s].cview
    /\ now - sessions[s].cviewAt <= ContactInfoViewTimeout
    /\ ~sessions[s].cmodal
    /\ sessions' = [sessions EXCEPT ![s].cmodal = TRUE, ![s].cviewAt = now, ![s].last = now]
    /\ ev' = Event("contact_button", s, sessions[s].actor, "modal_sent")
    /\ UNCHANGED <<adminVars, boot, now, regs, logs, dbInst, connAlive, stale, serverUp, faults, viewsLoaded, roles,
                   delViews, lastCall>>

\* ContactInfoModal.on_submit
ContactInfoModalSubmit(s, in) ==
    /\ sessions[s].cmodal
    /\ \E a \in {sessions[s].actor}, errors \in {Stage2Errors(in)} :
       \E c \in {PreChecks(DB, roles[a], a)} :
       \E outcome \in {IF ~c.pass THEN c.outcome
                        ELSE IF errors # <<>> THEN "invalid" ELSE "advanced"} :
        /\ SetDB(c.d)
        /\ sessions' = [sessions EXCEPT ![s] =
                IF outcome = "advanced"
                THEN [@ EXCEPT !.cmodal = FALSE, !.stage = "ContactInfoCaptured",
                               !.tview = TRUE, !.data = Stage2Data(sessions[s].basic, in, a),
                               !.tviewAt = now, !.last = now]
                ELSE [@ EXCEPT !.cmodal = FALSE, !.last = now]]
        /\ ev' = [Event("ContactInfoModal.on_submit", s, a, outcome) EXCEPT
                    !.input = in,
                    !.errors = IF c.pass THEN errors ELSE <<>>,
                    !.checks = IF c.pass THEN Stage2Checks ELSE {}]
    /\ UNCHANGED <<adminVars, boot, now, dbInst, serverUp, viewsLoaded, roles, delViews, lastCall>>

\* the body of TeamSelectionView.handle_team_selection; every path edits the
\* message with view=None, and no path stops the view. pend: the clicks of the
\* member still to be dispatched afterwards
TeamChoice(s, team_value, pend, maxLog) ==
    /\ now - sessions[s].tviewAt <= REGISTRATION_TIMEOUT
    /\ \E a \in {sessions[s].actor} :
       \E c \in {PreChecks(DB, roles[a], sessions[s].data.discord_id)} :
       \E w \in {SaveAndLog(c.d, sessions[s].data, team_value)} :
        /\ (c.pass /\ w.outcome = "committed") => Len(logs) < maxLog
        /\ SetDB(IF c.pass THEN w.d ELSE c.d)
        /\ sessions' = [sessions EXCEPT ![s] =
                IF c.pass /\ w.outcome = "committed"
                THEN [@ EXCEPT !.tview = FALSE, !.stage = "Committed", !.pending = pend,
                               !.data = [team |-> team_value] @@ @, !.last = now]
                ELSE IF c.pass
                THEN [@ EXCEPT !.tview = FALSE, !.data = [team |-> team_value] @@ @,
                               !.pending = pend, !.last = now]
                ELSE [@ EXCEPT !.tview = FALSE, !.pending = pend, !.last = now]]
        /\ ev' = [Event("handle_team_selection", s, a,
                        IF c.pass THEN w.outcome ELSE c.outcome) EXCEPT
                    !.input = team_value,
                    !.writes = IF c.pass THEN w.writes ELSE 0]
    /\ UNCHANGED <<adminVars, boot, now, dbInst, serverUp, viewsLoaded, roles, delViews, lastCall>>

\* a team button pressed on the message that shows the view. The callback is
\* dispatched only while the view has not timed out.
HandleTeamSelection(s, team_value) ==
    /\ sessions[s].tview
    /\ TeamChoice(s, team_value, sessions[s].pending, MaxLog)

\* the member presses a team button a second time before the edited message
\* reaches them: one more component interaction is on its way to the bot
SecondClick(s) ==
    /\ sessions[s].tview
    /\ sessions[s].pending = 0
    /\ sessions' = [sessions EXCEPT ![s].pending = 1]
    /\ UNCHANGED <<adminVars, boot, now, regs, logs, dbInst, connAlive, stale, serverUp, faults,
                   viewsLoaded, roles, delViews, ev, lastCall>>

\* the second click is dispatched after the first callback has run: the
\* message no longer shows the buttons, the view object still takes the
\* interaction until it times out
HandleSecondClick(s, team_value) ==
    /\ ~sessions[s].tview
    /\ sessions[s].pending = 1
    /\ TeamChoice(s, team_value, 0, MaxSessionLog)

----------------------------------------------------------------------------
(* main.py, views.py: administration *)

\* delete_registration: permission check, lookup, confirmation view
DeleteRegistration(admin, user) ==
    /\ dbInst
    /\ user \notin delViews
    /\ \E r \in {IF has_admin_permissions(roles[admin])
                  THEN Wrapped(DB, [op |-> "SELECT_ROW", id |-> user])
                  ELSE [d |-> DB, ret |-> <<>>, trace |-> <<>>]} :
        /\ SetDB(r.d)
        /\ delViews' = IF r.ret # <<>> THEN delViews \cup {user} ELSE delViews
        /\ ev' = Event("delete_registration", 0, user,
                       IF ~has_admin_permissions(roles[admin]) THEN "no_permission"
                       ELSE IF r.ret # <<>> THEN "confirm_sent" ELSE "not_registered")
    /\ UNCHANGED <<adminVars, boot, now, dbInst, serverUp, viewsLoaded, roles, sessions, lastCall>>

\* DeleteConfirmationView.confirm_delete
ConfirmDelete(admin, user) ==
    /\ user \in delViews
    /\ \E r \in {Wrapped(DB, [op |-> "DELETE", id |-> user])} :
       \E l \in {Wrapped(r.d, [op |-> "INSERT_LOG",
                               entry |-> LogEntry("DELETE_REGISTRATION", admin)])} :
        /\ r.ret => Len(logs) < MaxLog
        /\ SetDB(IF r.ret THEN l.d ELSE r.d)
        /\ ev' = Event("confirm_delete", 0, user, IF r.ret THEN "deleted" ELSE "delete_failed")
    /\ delViews' = delViews \ {user}
    /\ UNCHANGED <<adminVars, boot, now, dbInst, serverUp, viewsLoaded, roles, sessions, lastCall>>

\* DeleteConfirmationView.cancel_delete: the message is edited and the view stopped
CancelDelete(user) ==
    /\ user \in delViews
    /\ delViews' = delViews \ {user}
    /\ ev' = Event("cancel_delete", 0, user, "cancelled")
    /\ UNCHANGED <<adminVars, boot, now, regs, logs, dbInst, connAlive, stale, serverUp, faults,
                   viewsLoaded, roles, sessions, lastCall>>

\* utils.modify_user_registration
ModifyRegistration(user, field, value) ==
    /\ dbInst
    /\ \E r \in {Wrapped(DB, [op |-> "UPDATE", id |-> user, field |-> field,
                             value |-> value])} :
          /\ SetDB(r.d)
          /\ ev' = Event("modify_user_registration", 0, user, r.ret[2])
    /\ UNCHANGED <<adminVars, boot, now, dbInst, serverUp, viewsLoaded, roles, sessions, delViews, lastCall>>

----------------------------------------------------------------------------
(* Specifications *)

OpenContact == \E s \in Sessions : ContactButton(s)

AdminDelete == \E user \in FlowActors : DeleteRegistration("u2", user)

AdminConfirm == \E user \in FlowActors : ConfirmDelete("u2", user)

AdminCancel == \E user \in FlowActors : CancelDelete(user)

AdminModify == \E user \in FlowActors : \E m \in ModifyInputs : ModifyRegistration(user, m[1], m[2])

\* one flow with every sample input, the member's excluded role changing, the
\* server going down and coming back
Register1 == \E a \in FlowActors : RegisterButton(1, a)

SubmitBasic1 == \E in \in Stage1Inputs : RegistrationModalSubmit(1, in)

OpenContact1 == ContactButton(1)

SubmitContact1 == \E in \in Stage2Inputs : ContactInfoModalSubmit(1, in)

ChooseTeam1 == \E t \in TEAMS : HandleTeamSelection(1, t)

ChangeExcluded == \E a \in FlowActors : RoleChange(a, "excluded")

Next ==
    \/ OnReady \/ Register1 \/ SubmitBasic1 \/ OpenContact1 \/ SubmitContact1 \/ ChooseTeam1
    \/ ChangeExcluded \/ ServerDown \/ ServerUp

Spec == Init /\ [][Next]_vars

\* session slots are taken in order
RegisterInOrder ==
    \E s \in Sessions : \E a \in FlowActors :
        /\ \A t \in Sessions : t < s => sessions[t].stage # "Idle"
        /\ RegisterButton(s, a)

SubmitBasicOk == \E s \in Sessions : RegistrationModalSubmit(s, Ok1)

SubmitContactOk == \E s \in Sessions : ContactInfoModalSubmit(s, Ok2)

ChooseTeamIT == \E s \in Sessions : HandleTeamSelection(s, "IT")

FlowFaults == InjectFaults({"ok", "drop", "lost"})

\* concurrent flows of one member with accepted inputs, administration, and
\* every storage fault
NextRace ==
    \/ OnReady \/ RegisterInOrder \/ SubmitBasicOk \/ OpenContact \/ SubmitContactOk
    \/ ChooseTeamIT \/ AdminDelete \/ AdminConfirm \/ AdminModify
    \/ FlowFaults

SpecRace == Init /\ [][NextRace]_vars

\* the clock advances
TimeSteps == {150}

Tick ==
    /\ \E dt \in TimeSteps : now + dt <= MaxTime /\ now' = now + dt
    /\ UNCHANGED <<adminVars, boot, regs, logs, dbInst, connAlive, stale, serverUp, faults, viewsLoaded, roles,
                   sessions, delViews, ev, lastCall>>

SubmitBasicOk1 == RegistrationModalSubmit(1, Ok1)

SubmitContactOk1 == ContactInfoModalSubmit(1, Ok2)

ChooseTeamIT1 == HandleTeamSelection(1, "IT")

\* one flow with accepted inputs while time passes
NextTime ==
    \/ OnReady \/ Register1 \/ SubmitBasicOk1 \/ OpenContact1 \/ SubmitContactOk1
    \/ ChooseTeamIT1 \/ Tick

SpecTime == Init /\ [][NextTime]_vars

\* the environment schedules what happens to the statements of a commit
CommitFaults ==
    /\ sessions[1].tview
    /\ faults = <<>>
    /\ \E q \in FaultSeqs({"ok", "drop", "lost"}, MaxCommitFaults) :
            q # <<>> /\ q[Len(q)] # "ok" /\ faults' = q
    /\ UNCHANGED <<adminVars, boot, now, regs, logs, dbInst, connAlive, stale, serverUp, viewsLoaded, roles,
                   sessions, delViews, ev, lastCall>>

\* one flow with accepted inputs and every storage fault during the commit
NextCommit ==
    \/ OnReady \/ Register1 \/ SubmitBasicOk1 \/ OpenContact1 \/ SubmitContactOk1
    \/ ChooseTeamIT1 \/ CommitFaults

SpecCommit == Init /\ [][NextCommit]_vars

SecondClick1 == SecondClick(1)

SecondChoice1 == \E t \in {"IT", "Design"} : HandleSecondClick(1, t)

\* one flow with accepted inputs whose team button is pressed twice, and the
\* deletion command
NextDouble ==
    \/ OnReady \/ Register1 \/ SubmitBasicOk1 \/ OpenContact1 \/ SubmitContactOk1
    \/ ChooseTeamIT1 \/ SecondClick1 \/ SecondChoice1 \/ AdminDelete \/ AdminConfirm
    \/ ServerDown \/ ServerUp

SpecDouble == Init /\ [][NextDouble]_vars

\* field edits: a team of the list, a team outside it, a phone, an unknown field
EditInputs == {<<"team", "HR">>, <<"team", "Chess">>, <<"phone", <<"1", "2">>>>,
               <<"bogus_field", "x">>}

EditField == \E user \in FlowActors : \E m \in EditInputs : ModifyRegistration(user, m[1], m[2])

\* one flow with accepted inputs, and field edits
NextEdit ==
    \/ OnReady \/ Register1 \/ SubmitBasicOk1 \/ OpenContact1 \/ SubmitContactOk1
    \/ ChooseTeam1 \/ EditField

SpecEdit == Init /\ [][NextEdit]_vars

----------------------------------------------------------------------------
(* utils.py, main.py: the unregistered members *)

\* guild.members once the members in gone have left
Roster(gone) == SelectSeq(GuildMembers, LAMBDA m : m \notin gone)

\* the test that would take any role for a team role
HasAnyRole(userRoles) == userRoles # {}

\* any(role_id in config.EXISTING_TEAM_ROLE_IDS for role_id in user_role_ids)
HasExistingTeam(userRoles) == userRoles \cap EXISTING_TEAM_ROLE_IDS # {}

\* utils.get_unregistered_members_with_teams, and the same loop in the four
\* commands of main.py: <<members_with_teams, members_without_teams>>
get_unregistered_members_with_teams(roster, rolesOf, registered_ids) ==
    LET Concerned(m) ==
            m \notin registered_ids /\ check_registration_eligibility(rolesOf[m])[1]
    IN <<SelectSeq(roster, LAMBDA m : Concerned(m) /\ HasExistingTeam(rolesOf[m])),
         SelectSeq(roster, LAMBDA m : Concerned(m) /\ ~HasExistingTeam(rolesOf[m]))>>

\* the role sets a member of the roster may hold
RosterRoleSets == {{}, {"team"}, {"excluded"}, {"team", "excluded"}, {"unverified"},
                   {"unverified", "team"}}

\* a guild whose members other than the administrator hold any of these
InitClassify ==
    /\ InitProcess
    /\ regs = <<>>
    /\ roles \in {r \in [MemberIds -> RosterRoleSets \cup {{"admin"}}] :
                    /\ r["u2"] = {"admin"}
                    /\ \A m \in MemberIds \ {"u2"} : r[m] \in RosterRoleSets}

\* get_unregistered_members_with_teams called with a set of registered ids
Classify(registered_ids) ==
    /\ \E b \in {get_unregistered_members_with_teams(Roster(left), roles, registered_ids)} :
        classified' = [done |-> TRUE, roster |-> Roster(left),
                       registered_ids |-> registered_ids,
                       members_with_teams |-> b[1], members_without_teams |-> b[2]]
    /\ UNCHANGED <<regs, logs, dbInst, connAlive, stale, serverUp, faults, viewsLoaded, roles,
                   sessions, delViews, ev, lastCall, now, boot, left, grant, kick, csv, keep, threads>>

ClassifyAny == \E registered_ids \in SUBSET MemberIds : Classify(registered_ids)

\* a member leaves the guild
MemberLeaves ==
    /\ \E m \in MemberIds \ left : left' = left \cup {m}
    /\ Cardinality(left) < MaxLeft
    /\ UNCHANGED <<regs, logs, dbInst, connAlive, stale, serverUp, faults, viewsLoaded, roles,
                   sessions, delViews, ev, lastCall, now, boot, classified, grant, kick, csv, keep, threads>>

NextClassify == ClassifyAny \/ MemberLeaves

SpecClassify == InitClassify /\ [][NextClassify]_vars

----------------------------------------------------------------------------
(* main.py: assign_not_renewed, assign_unverified *)

LogEntryWith(action, by, details) == LogEntry(action, by) @@ [details |-> details]

\* the iterations that need no call: the member holds the role, already_had += 1
RECURSIVE SkipAlreadyHad(_, _)
SkipAlreadyHad(g, rolesOf) ==
    IF g.i <= Len(g.list) /\ g.role \in rolesOf[g.list[g.i]]
    THEN SkipAlreadyHad([g EXCEPT !.i = @ + 1, !.already_had = @ + 1,
                                  !.had = Append(@, g.list[g.i])], rolesOf)
    ELSE g

\* the loop up to its next await: add_roles is called for the next member that
\* lacks the role, or the list is exhausted
NextGrant(g, rolesOf) ==
    LET Reached(h) ==
            IF h.i > Len(h.list) THEN [h EXCEPT !.phase = "done"]
            ELSE [h EXCEPT !.phase = "loop", !.calls = Append(@, h.list[h.i])]
    IN Reached(SkipAlreadyHad(g, rolesOf))

\* the loop that would end at the first failing call
GrantResultStopsOnError(g, ok) ==
    IF ok THEN [g EXCEPT !.processed = @ + 1, !.i = @ + 1]
    ELSE [g EXCEPT !.errors = @ + 1, !.i = Len(g.list) + 1]

\* add_roles returned (processed += 1) or raised (errors += 1)
GrantResult(g, ok) ==
    IF ok THEN [g EXCEPT !.processed = @ + 1, !.i = @ + 1]
    ELSE [g EXCEPT !.errors = @ + 1, !.i = @ + 1]

\* the action name each command logs
GrantAction(role) ==
    IF role = NOT_RENEWED_ROLE_ID THEN "ASSIGN_NOT_RENEWED" ELSE "ASSIGN_UNVERIFIED"

\* utils.log_action after the loop, then the embed with the three tallies
GrantFinish(d, g) ==
    Wrapped(d, [op |-> "INSERT_LOG",
                entry |-> LogEntryWith(GrantAction(g.role), g.by, g.processed)]).d

\* the registered ids came from the table, not from the failure value
ReadOk(r) == ~r.raised /\ r.trace # <<>> /\ r.trace[Len(r.trace)] = "exec:ok"

\* the command up to the first add_roles: permission, role lookup, registered
\* ids, the bucket, and the members that already hold the role
AssignCommand(admin, role, run, first) ==
    /\ \E found \in BOOLEAN :
       \E r \in {UtilsCall(DB, dbInst, [op |-> "SELECT_IDS"])} :
       \E b \in {get_unregistered_members_with_teams(Roster(left), roles,
                    IF r.raised THEN {} ELSE r.ret)} :
       \E g \in {NextGrant([NoGrant EXCEPT !.role = role, !.by = admin,
                                           !.list = IF role = NOT_RENEWED_ROLE_ID
                                                    THEN b[1] ELSE b[2],
                                           !.i = 1, !.run = run, !.first = first,
                                           !.read_ok = ReadOk(r)], roles)} :
        IF ~has_admin_permissions(roles[admin])
        THEN /\ ev' = Event("assign_role", 0, admin, "no_permission")
             /\ UNCHANGED <<regs, logs, dbInst, connAlive, stale, faults, grant>>
        ELSE IF ~found
        THEN /\ ev' = Event("assign_role", 0, admin, "role_not_found")
             /\ UNCHANGED <<regs, logs, dbInst, connAlive, stale, faults, grant>>
        ELSE IF r.raised
        THEN /\ ev' = Event("assign_role", 0, admin, "error")
             /\ SetDB(r.d)
             /\ UNCHANGED <<dbInst, grant>>
        ELSE IF g.list = <<>>
        THEN /\ ev' = Event("assign_role", 0, admin, "all_registered")
             /\ SetDB(r.d)
             /\ dbInst' = r.inst
             /\ UNCHANGED grant
        ELSE /\ g.phase = "done" => Len(logs) < MaxLog
             /\ ev' = Event("assign_role", 0, admin,
                            IF g.phase = "done" THEN "report" ELSE "assigning")
             /\ SetDB(IF g.phase = "done" THEN GrantFinish(r.d, g) ELSE r.d)
             /\ dbInst' = r.inst
             /\ grant' = g
    /\ UNCHANGED <<serverUp, viewsLoaded, roles, sessions, delViews, lastCall, now, boot, left,
                   classified, kick, csv, keep, threads>>

\* one bulk command per run of the model
AssignStart(admin, role) == grant.phase = "idle" /\ AssignCommand(admin, role, 1, NoFirstRun)

\* the same member runs the same command again once the first run has reported
AssignAgain ==
    /\ grant.phase = "done"
    /\ grant.run = 1
    /\ AssignCommand(grant.by, grant.role, 2,
                     [errors |-> grant.errors, list |-> grant.list, read_ok |-> grant.read_ok])

\* add_roles returns or raises for the member awaited; the loop goes on to the
\* next call or to the log entry and the report
AssignReturn ==
    /\ grant.phase = "loop"
    /\ \E ok \in BOOLEAN : \E m \in {grant.list[grant.i]} :
        /\ ok => m \notin left
        /\ roles' = [roles EXCEPT ![m] = IF ok THEN @ \cup {grant.role} ELSE @]
        /\ \E g \in {NextGrant(GrantResult(grant, ok), roles')} :
            /\ g.phase = "done" => Len(logs) < MaxLog
            /\ grant' = g
            /\ IF g.phase = "done"
               THEN /\ SetDB(GrantFinish(DB, g))
                    /\ ev' = Event("assign_role", 0, g.by, "report")
               ELSE UNCHANGED <<regs, logs, connAlive, stale, faults, ev>>
    /\ UNCHANGED <<dbInst, serverUp, viewsLoaded, sessions, delViews, lastCall, now, boot, left,
                   classified, kick, csv, keep, threads>>

\* a guild whose members hold a team role or not, the target role or not
GrantRoleSets == {{}, {"team"}, {"team", "not_renewed"}}

InitGrant ==
    /\ InitProcess
    /\ regs = <<>>
    /\ roles \in {r \in [MemberIds -> GrantRoleSets \cup {{"admin"}}] :
                    /\ r["u2"] = {"admin"}
                    /\ \A m \in MemberIds \ {"u2"} : r[m] \in GrantRoleSets}

AssignAny == \E admin \in Actors : \E role \in {NOT_RENEWED_ROLE_ID, UNVERIFIED_ROLE_ID} :
                AssignStart(admin, role)

\* a member is given the role of the command in progress by someone else
GivenTargetRole ==
    \E m \in MemberIds \ {"u2"} : grant.phase = "loop" /\ grant.role \notin roles[m]
                                  /\ RoleChange(m, grant.role)

NextGrantSpec ==
    \/ OnReady \/ AssignAny \/ AssignReturn \/ GivenTargetRole \/ MemberLeaves
    \/ ServerDown \/ ServerUp

SpecGrant == InitGrant /\ [][NextGrantSpec]_vars

\* a guild and a table that do not change while the command is run twice;
\* the member u1 may be registered
InitRegrant ==
    /\ InitProcess
    /\ regs \in {<<>>, <<Row("u1", "IT")>>}
    /\ roles \in {r \in [MemberIds -> GrantRoleSets \cup {{"admin"}}] :
                    /\ r["u2"] = {"admin"}
                    /\ r["m2"] = {}
                    /\ \A m \in {"u1", "m1"} : r[m] \in GrantRoleSets}

NextRegrant == OnReady \/ AssignAny \/ AssignReturn \/ AssignAgain \/ ServerDown \/ ServerUp

SpecRegrant == InitRegrant /\ [][NextRegrant]_vars

----------------------------------------------------------------------------
(* main.py: kick_new_members; views.py: ConfirmationView *)

\* member.top_role >= bot_member.top_role
AtOrAboveBot(userRoles) == "high" \in userRoles

\* member.guild_permissions.administrator
IsAdministrator(userRoles) == "administrator" \in userRoles

\* the filter of kick_new_members: a bot is passed over, a member at or above
\* the bot's top role or with the administrator permission is listed as skipped
KickFilter(bucket, rolesOf) ==
    LET Listed(s) ==
            [j \in 1..Len(s) |->
                <<s[j], IF AtOrAboveBot(rolesOf[s[j]]) THEN "higher role" ELSE "admin">>]
    IN [kickable |-> SelectSeq(bucket, LAMBDA m : /\ m \notin Bots
                                                  /\ ~AtOrAboveBot(rolesOf[m])
                                                  /\ ~IsAdministrator(rolesOf[m])),
        skipped |-> Listed(SelectSeq(bucket, LAMBDA m :
                        /\ m \notin Bots
                        /\ AtOrAboveBot(rolesOf[m]) \/ IsAdministrator(rolesOf[m])))]

\* the view that would go on dispatching after its timeout
DispatchesAfterTimeout(k, t) == k.phase = "preview"

\* a click on a button of the ConfirmationView reaches its callback: the view
\* was sent, has not been stopped and has not timed out
Dispatches(k, t) == k.phase = "preview" /\ t - k.viewAt <= ConfirmationViewTimeout

\* kick_new_members: permission, the bot's kick permission, registered ids, the
\* bucket, the filter, the preview with the ConfirmationView
KickStart(admin) ==
    /\ kick.phase = "idle"
    /\ \E botCanKick \in BOOLEAN :
       \E r \in {UtilsCall(DB, dbInst, [op |-> "SELECT_IDS"])} :
       \E b \in {get_unregistered_members_with_teams(Roster(left), roles,
                    IF r.raised THEN {} ELSE r.ret)[2]} :
       \E f \in {KickFilter(b, roles)} :
        IF ~has_admin_permissions(roles[admin])
        THEN /\ ev' = Event("kick_new_members", 0, admin, "no_permission")
             /\ UNCHANGED <<regs, logs, dbInst, connAlive, stale, faults, kick>>
        ELSE IF ~botCanKick
        THEN /\ ev' = Event("kick_new_members", 0, admin, "bot_cannot_kick")
             /\ UNCHANGED <<regs, logs, dbInst, connAlive, stale, faults, kick>>
        ELSE IF r.raised
        THEN /\ ev' = Event("kick_new_members", 0, admin, "error")
             /\ SetDB(r.d)
             /\ UNCHANGED <<dbInst, kick>>
        ELSE /\ ev' = Event("kick_new_members", 0, admin,
                            IF f.kickable = <<>> THEN "none_to_kick" ELSE "confirm_sent")
             /\ SetDB(r.d)
             /\ dbInst' = r.inst
             /\ kick' = [NoKick EXCEPT !.phase = IF f.kickable = <<>> THEN "idle" ELSE "preview",
                                       !.by = admin, !.bucket = b, !.list = f.kickable,
                                       !.skipped = f.skipped, !.viewAt = now]
    /\ UNCHANGED <<serverUp, viewsLoaded, roles, sessions, delViews, lastCall, now, boot, left,
                   classified, grant, csv, keep, threads>>

\* ConfirmationView.confirm_button up to the first member.kick: confirmed,
\* stop(), the message edited with view=None
KickConfirm ==
    /\ Dispatches(kick, now)
    /\ kick' = [kick EXCEPT !.phase = "loop", !.i = 1, !.calls = <<kick.list[1]>>,
                            !.passes = @ + 1]
    /\ ev' = Event("confirm_button", 0, kick.by, "processing")
    /\ UNCHANGED <<regs, logs, dbInst, connAlive, stale, serverUp, faults, viewsLoaded, roles,
                   sessions, delViews, lastCall, now, boot, left, classified, grant, csv, keep, threads>>

\* ConfirmationView.cancel_button
KickCancel ==
    /\ Dispatches(kick, now)
    /\ kick' = [kick EXCEPT !.phase = "cancelled"]
    /\ ev' = Event("cancel_button", 0, kick.by, "cancelled")
    /\ UNCHANGED <<regs, logs, dbInst, connAlive, stale, serverUp, faults, viewsLoaded, roles,
                   sessions, delViews, lastCall, now, boot, left, classified, grant, csv, keep, threads>>

\* member.kick returned (processed += 1) or raised (errors += 1)
KickResult(k, ok) ==
    IF ok THEN [k EXCEPT !.processed = @ + 1, !.i = @ + 1]
    ELSE [k EXCEPT !.errors = @ + 1, !.i = @ + 1]

\* member.kick returns or raises for the member awaited; the loop calls kick
\* for the next member, or logs DEADLINE_ENFORCEMENT and reports
KickReturn ==
    /\ kick.phase = "loop"
    /\ \E ok \in BOOLEAN : \E m \in {kick.list[kick.i]} : \E k \in {KickResult(kick, ok)} :
        /\ ok => m \notin left
        /\ left' = IF ok THEN left \cup {m} ELSE left
        /\ IF k.i > Len(k.list)
           THEN /\ Len(logs) < MaxLog
                /\ kick' = [k EXCEPT !.phase = "done"]
                /\ SetDB(Wrapped(DB, [op |-> "INSERT_LOG",
                                      entry |-> LogEntryWith("DEADLINE_ENFORCEMENT", k.by,
                                                             <<k.processed, k.errors>>)]).d)
                /\ ev' = Event("confirm_button", 0, k.by, "complete")
           ELSE /\ kick' = [k EXCEPT !.calls = Append(@, k.list[k.i])]
                /\ UNCHANGED <<regs, logs, connAlive, stale, faults, ev>>
    /\ UNCHANGED <<dbInst, serverUp, viewsLoaded, roles, sessions, delViews, lastCall, now, boot,
                   classified, grant, csv, keep, threads>>

\* the role sets of the members other than the two actors
KickRoleSets == {{}, {"administrator"}, {"high"}, {"excluded"}}

\* a guild with unregistered members of every kind; the commanding member
\* holds the staff role, above the bot
InitKick ==
    /\ InitProcess
    /\ regs = <<>>
    /\ roles \in {r \in [MemberIds -> KickRoleSets \cup {{"team"}, {"admin", "high"}}] :
                    /\ r["u1"] \in {{}, {"team"}}
                    /\ r["u2"] = {"admin", "high"}
                    /\ r["m1"] \in KickRoleSets
                    /\ r["m2"] \in {{}, {"high"}}}

KickAny == \E admin \in Actors : KickStart(admin)

\* a member of the previewed list is given the administrator permission
Promoted ==
    \E m \in Range(kick.list) : kick.phase = "preview" /\ ~IsAdministrator(roles[m])
                                /\ RoleChange(m, "administrator")

\* the clock advances past the view's timeout
KickTimeSteps == {30, 60}

KickTick ==
    /\ kick.phase = "preview"
    /\ \E dt \in KickTimeSteps : now + dt <= MaxKickTime /\ now' = now + dt
    /\ UNCHANGED <<adminVars, boot, regs, logs, dbInst, connAlive, stale, serverUp, faults,
                   viewsLoaded, roles, sessions, delViews, ev, lastCall>>

NextKick ==
    \/ OnReady \/ KickAny \/ KickConfirm \/ KickCancel \/ KickReturn \/ Promoted
    \/ KickTick \/ ServerDown \/ ServerUp

SpecKick == InitKick /\ [][NextKick]_vars

\* a guild of members without roles, one of them possibly registered, and the
\* member u1 registering while the kick command is under way
InitKickRegistered ==
    /\ InitProcess
    /\ regs \in {<<>>, <<Row("m1", "IT")>>}
    /\ roles = [a \in MemberIds |-> IF a = "u2" THEN {"admin", "high"} ELSE {}]

NextKickRegistered ==
    \/ OnReady \/ KickAny \/ KickConfirm \/ KickReturn \/ ServerDown \/ ServerUp
    \/ Register1 \/ SubmitBasicOk1 \/ OpenContact1 \/ SubmitContactOk1 \/ ChooseTeamIT1

SpecKickRegistered == InitKickRegistered /\ [][NextKickRegistered]_vars

----------------------------------------------------------------------------
(* The export on stores of every kind *)

\* a stored row; the values that play no part are kept short
StoredRow(id, ts, name, year) ==
    [discord_id |-> id, last_name |-> name, first_name |-> <<"B">>, photo |-> <<"c">>,
     year_major |-> year, student_id |-> <<"1", "2">>, phone |-> <<"0", "1">>,
     email |-> <<"a", "@", "b">>, team |-> "IT", timestamp |-> ts]

\* names and year texts with the characters a CSV file treats specially
ExportNames == {<<"A">>, <<"A", ",", "B">>, <<"\"", "A", "\"">>, <<"A", "\n", "B">>}
ExportYears == {<<"3">>, <<"3", ",", " ", "\"", "c">>}
ExportTimes == {0, 150}

\* the table as a boot may find it: empty, one row, two rows
ExportStores ==
    {<<>>}
    \cup {<<StoredRow("u1", ts, n, y)>> : ts \in ExportTimes, n \in ExportNames, y \in ExportYears}
    \cup {<<StoredRow("u1", ts, n, y), StoredRow("m1", ts2, <<"A">>, <<"3">>)>> :
            ts \in ExportTimes, n \in ExportNames, y \in ExportYears, ts2 \in ExportTimes}
    \cup {<<StoredRow("m1", ts2, <<"A">>, <<"3">>), StoredRow("u1", ts, n, y)>> :
            ts \in ExportTimes, n \in ExportNames, y \in ExportYears, ts2 \in ExportTimes}

InitExport ==
    /\ InitProcess
    /\ regs \in ExportStores
    /\ roles = [a \in MemberIds |->
                    IF a = "u1" THEN {"team"} ELSE IF a = "u2" THEN {"admin"} ELSE {}]

\* utils.export_registrations_to_csv(config.TEMP_CSV_FILE)
ExportToCsv == StoreCall([op |-> "EXPORT"])

NextExport == OnReady \/ ExportToCsv \/ ServerDown \/ ServerUp \/ TimePasses

SpecExport == InitExport /\ [][NextExport]_vars

----------------------------------------------------------------------------
(* main.py: db_keepalive *)

\* one run of the loop body: get_db(), ensure_connection(), every exception
\* caught and printed. The trace tells what ensure_connection did.
DbKeepalive ==
    /\ keep.running
    /\ now - keep.lastRun >= KeepaliveSeconds
    /\ dbInst
    /\ \E e \in {EnsureConnection(DB)} :
        /\ connAlive' = e.d.alive
        /\ stale' = e.d.stale
        /\ keep' = [keep EXCEPT !.lastRun = now,
                                !.lastProbe = IF stale THEN now ELSE @,
                                !.last_ping = IF stale /\ ~e.raised THEN now ELSE @]
        /\ lastCall' = [stmt |-> [op |-> "ENSURE"], ret |-> "None",
                        trace |-> <<IF e.raised THEN "ensure:raise"
                                    ELSE IF stale THEN "ensure:ping" ELSE "ensure:skip">>,
                        raised |-> FALSE]
    /\ UNCHANGED <<left, classified, grant, kick, csv, threads, boot, now, regs, logs, dbInst,
                   serverUp,
                   faults, viewsLoaded, roles, sessions, delViews, ev>>

\* the clock advances; the loop body runs when it is due, and the connection
\* counts as stale once last_ping is more than 300 s back
KeepTimeSteps == {60}

KeepTick ==
    /\ ~(keep.running /\ now - keep.lastRun >= KeepaliveSeconds)
    /\ \E dt \in KeepTimeSteps :
        /\ now + dt <= MaxKeepTime
        /\ now' = now + dt
        /\ stale' = (dbInst /\ now + dt - keep.last_ping > PingAfterSeconds)
    /\ UNCHANGED <<adminVars, boot, regs, logs, dbInst, connAlive, serverUp, faults,
                   viewsLoaded, roles, sessions, delViews, ev, lastCall>>

\* the process with no storage activity but the keepalive
NextKeepalive == OnReady \/ DbKeepalive \/ KeepTick \/ ServerDown \/ ServerUp

SpecKeepalive == Init /\ [][NextKeepalive]_vars

----------------------------------------------------------------------------
(* The storage methods as the threads of the process run them *)

\* what each thread runs on the connection: the event loop runs the flow's
\* save_registration, the confirmation view's remove_user_registration and the
\* keepalive's ensure_connection; a worker runs what asyncio.to_thread is
\* given, get_registration_stats and get_registered_discord_ids
MethodsOf(th) ==
    IF th = "loop" THEN {"INSERT_REG", "DELETE", "ENSURE"} ELSE {"STATS", "SELECT_IDS"}

\* the round trips of a method: get_registration_stats executes three SELECTs
Statements(op) == IF op = "STATS" THEN 3 ELSE 1

\* the threads inside a storage method
InProgress == {th \in Threads : threads[th].op # "none"}

\* a round trip made while another thread is inside a method on the same
\* pymysql connection, which is not safe for that: it may go through ("ok"),
\* raise before the server saw the statement ("raise") or after it applied it
\* ("lost"), or hand this thread the reply to another statement ("mixed")
RaceOutcomes == {"ok", "raise", "lost", "mixed"}

ThreadIds == {"u1"}

\* the statement a thread's method stands for
StmtOf(t) ==
    CASE t.op = "INSERT_REG" -> [op |-> "INSERT_REG", row |-> Row(t.id, "IT")]
      [] t.op = "DELETE" -> [op |-> "DELETE", id |-> t.id]
      [] OTHER -> [op |-> t.op]

\* a thread enters a storage method; nothing stops it while another thread is
\* inside one
ThreadBegin(th, op, id) ==
    /\ dbInst /\ connAlive /\ serverUp /\ faults = <<>>
    /\ threads[th].op = "none"
    /\ op \in MethodsOf(th)
    /\ threads' = [threads EXCEPT ![th] = [Idle EXCEPT !.op = op, !.id = id]]
    /\ UNCHANGED <<left, classified, grant, kick, csv, keep, boot, now, regs, logs, dbInst,
                   connAlive, stale, serverUp, faults, viewsLoaded, roles, sessions, delViews,
                   ev, lastCall>>

\* the k-th SELECT of get_registration_stats, read into the thread's locals
StatsStatement(t, k, rs) ==
    CASE k = 1 -> [t EXCEPT !.total = Len(rs)]
      [] k = 2 -> [t EXCEPT !.teams = TeamCounts(rs)]
      [] k = 3 -> [t EXCEPT !.latest = IF rs = <<>> THEN <<>> ELSE <<rs[Len(rs)]>>]

\* what the method returns after its last round trip
ThreadResult(t, outcome, rs) ==
    IF t.op = "ENSURE" THEN "None"
    ELSE IF outcome \in {"raise", "lost"} THEN FailVal(StmtOf(t))
    ELSE CASE t.op = "STATS" -> [total |-> t.total, teams |-> t.teams, latest |-> t.latest]
           [] t.op = "INSERT_REG" -> outcome = "mixed" \/ ~UniqueViolation(rs, Row(t.id, "IT"))
           [] outcome = "mixed" -> FailVal(StmtOf(t))
           [] OTHER -> RetVal(StmtOf(t), Execute([regs |-> rs, logs |-> <<>>], StmtOf(t)).val)

\* the thread makes the next round trip of its method: ensure_connection first
\* (a ping when the connection is stale), then the statement; after the last
\* one, or on an exception, the method returns
ThreadStatement(th, outcome) ==
    /\ threads[th].op # "none"
    /\ outcome \in (IF InProgress = {th} THEN {"ok"} ELSE RaceOutcomes)
    /\ \E t \in {threads[th]} :
        /\ regs' = IF outcome # "raise" /\ t.op \in {"INSERT_REG", "DELETE"}
                   THEN Execute([regs |-> regs, logs |-> logs], StmtOf(t)).d.regs
                   ELSE regs
        /\ stale' = (stale /\ outcome = "raise")
        /\ IF outcome \in {"raise", "lost"} \/ t.pc + 1 = Statements(t.op)
           THEN /\ threads' = [threads EXCEPT ![th] = Idle]
                /\ \E u \in {IF t.op = "STATS" /\ outcome = "ok"
                             THEN StatsStatement(t, t.pc + 1, regs) ELSE t} :
                     lastCall' = [stmt |-> StmtOf(t), ret |-> ThreadResult(u, outcome, regs),
                                  trace |-> Append(t.trace, outcome), raised |-> FALSE]
           ELSE /\ threads' = [threads EXCEPT ![th] =
                        [(IF outcome = "ok" THEN StatsStatement(t, t.pc + 1, regs) ELSE t)
                            EXCEPT !.pc = t.pc + 1, !.trace = Append(t.trace, outcome)]]
                /\ lastCall' = lastCall
    /\ UNCHANGED <<left, classified, grant, kick, csv, keep, boot, now, logs, dbInst, connAlive,
                   serverUp, faults, viewsLoaded, roles, sessions, delViews, ev>>

ThreadBeginAny ==
    \E th \in Threads : \E op \in MethodsOf(th) :
        \E id \in (IF op \in {"INSERT_REG", "DELETE"} THEN ThreadIds ELSE {""}) :
            ThreadBegin(th, op, id)

ThreadStatementAny == \E th \in Threads, outcome \in RaceOutcomes : ThreadStatement(th, outcome)

\* the process with its connection up, the event loop and two workers
NextThreads == OnReady \/ ThreadBeginAny \/ ThreadStatementAny \/ TimePasses

SpecThreads == Init /\ [][NextThreads]_vars

----------------------------------------------------------------------------
(* main.py: the commands that answer in one message *)

OneStepCommands == {"setup_registration", "search_registration", "registration_stats",
                    "export_registrations"}

\* the storage call of the command
CommandStmt(h, user) ==
    CASE h = "search_registration" -> [op |-> "SELECT_ROW", id |-> user]
      [] h = "registration_stats" -> [op |-> "STATS"]
      [] h = "export_registrations" -> [op |-> "EXPORT"]
      [] OTHER -> [op |-> "none"]

\* the action the command passes to log_action
CommandLog(h) ==
    IF h = "setup_registration" THEN "SETUP_REGISTRATION" ELSE "EXPORT_CSV"

\* setup_registration, search_registration, registration_stats and
\* export_registrations: defer, has_admin_permissions, then the storage call
\* and, for the panel and a successful export, log_action
AdminCommand(admin, h, user) ==
    /\ IF ~has_admin_permissions(roles[admin])
       THEN /\ ev' = Event(h, 0, admin, "no_permission")
            /\ UNCHANGED <<regs, logs, dbInst, connAlive, stale, faults, lastCall, csv>>
       ELSE \E r \in {IF h = "setup_registration"
                      THEN [d |-> DB, ret |-> TRUE, trace |-> <<>>, raised |-> FALSE,
                            inst |-> dbInst]
                      ELSE UtilsCall(DB, dbInst, CommandStmt(h, user))} :
            \E logged \in {/\ h \in {"setup_registration", "export_registrations"}
                           /\ ~r.raised /\ r.ret = TRUE} :
            \E l \in {IF logged
                      THEN UtilsCall(r.d, r.inst, [op |-> "INSERT_LOG",
                                                   entry |-> LogEntry(CommandLog(h), admin)])
                      ELSE r} :
                /\ logged => Len(logs) < MaxLog
                /\ SetDB(l.d)
                /\ dbInst' = l.inst
                /\ lastCall' = IF h = "setup_registration" THEN lastCall
                               ELSE [stmt |-> CommandStmt(h, user), ret |-> r.ret,
                                     trace |-> r.trace, raised |-> r.raised]
                /\ \E f \in FilesAfter(CommandStmt(h, user), r.raised, r.ret, regs, csv) :
                        csv' = f
                /\ ev' = Event(h, 0, admin, IF r.raised \/ l.raised THEN "error" ELSE "done")
    /\ UNCHANGED <<left, classified, grant, kick, keep, threads, boot, now, serverUp,
                   viewsLoaded, roles, sessions, delViews>>

PermissionTargets == {"m1", "m2"}

CommandAny ==
    \E admin \in Actors : \E h \in OneStepCommands : \E user \in PermissionTargets :
        (h = "search_registration" \/ user = "m1") /\ AdminCommand(admin, h, user)

DeleteAny == \E admin \in Actors : \E user \in PermissionTargets : DeleteRegistration(admin, user)

ConfirmAny == \E user \in PermissionTargets : ConfirmDelete("u2", user)

\* every command a member can invoke, as that member
CommandBy(admin) ==
    \/ \E h \in OneStepCommands : \E user \in PermissionTargets : AdminCommand(admin, h, user)
    \/ \E role \in {NOT_RENEWED_ROLE_ID, UNVERIFIED_ROLE_ID} : AssignStart(admin, role)
    \/ KickStart(admin)
    \/ \E user \in PermissionTargets : DeleteRegistration(admin, user)

\* m1 is registered, m2 is not; u2 holds an admin role, u1 holds none
InitPermission ==
    /\ InitProcess
    /\ regs = <<Row("m1", "IT")>>
    /\ roles = [a \in MemberIds |-> IF a = "u2" THEN {"admin"} ELSE {}]

\* every admin command, invoked by the staff member and by a plain member
NextPermission ==
    \/ OnReady \/ CommandAny \/ DeleteAny \/ ConfirmAny \/ AssignAny \/ KickAny

SpecPermission == InitPermission /\ [][NextPermission]_vars

----------------------------------------------------------------------------
(* Every operation that touches the store, side by side *)

\* the commands that only read the table or write the audit log: search,
\* stats, export, log_action
OtherStoreCalls ==
    \E stmt \in {c \in StoreCalls : c.op \in {"SELECT_ROW", "STATS", "EXPORT", "INSERT_LOG"}} :
        StoreCall(stmt)

\* the reply to the next statement, or to the one after it, is lost after the
\* server applied the statement
FrameFaults ==
    /\ faults = <<>>
    /\ faults' \in {<<"lost">>, <<"ok", "lost">>}
    /\ UNCHANGED <<adminVars, boot, now, regs, logs, dbInst, connAlive, stale, serverUp,
                   viewsLoaded, roles, sessions, delViews, ev, lastCall>>

\* one flow with accepted inputs, the three administration commands on a
\* registration, the reading commands, the audit log, and lost replies with
\* the reconnect that follows
NextFrame ==
    \/ OnReady \/ Register1 \/ SubmitBasicOk1 \/ OpenContact1 \/ SubmitContactOk1
    \/ ChooseTeamIT1 \/ AdminDelete \/ AdminConfirm \/ AdminCancel \/ AdminModify
    \/ OtherStoreCalls \/ FrameFaults

SpecFrame == Init /\ [][NextFrame]_vars

----------------------------------------------------------------------------
(* Properties *)

FlowHandlers == {"RegistrationModal.on_submit", "ContactInfoModal.on_submit",
                 "handle_team_selection"}

IsExec(tok) == tok \in {"exec:ok", "exec:transient", "exec:error"}

\* C1: the registrations table never holds two rows with the same discord_id,
\* whatever flows, retries, field edits and deletes have run.
C1_AtMostOnePerActor == \A a \in Actors : Cardinality(RowsOf(regs, a)) <= 1

\* a second session of a registered member got past the pre-check and its
\* INSERT was sent and refused
C1_Witness ==
    /\ ev.h = "handle_team_selection"
    /\ ev.existed
    /\ ev.writes >= 1
    /\ ev.outcome = "save_failed"
    /\ \E t \in Sessions : t # ev.s /\ sessions[t].stage = "Committed"
                           /\ sessions[t].actor = ev.actor
    /\ Cardinality(RowsOf(regs, ev.actor)) = 1

\* C2: when a second session of a member commits while another session of that
\* member has committed and the row is stored, the second session is shown the
\* duplicate-registration rejection and the table holds exactly one row.
C2_LoserSeesDuplicateRejection ==
    (/\ ev.h = "handle_team_selection"
     /\ ev.existed
     /\ \E t \in Sessions : t # ev.s /\ sessions[t].stage = "Committed"
                            /\ sessions[t].actor = ev.actor)
    => /\ ev.outcome = "already_registered"
       /\ Cardinality(RowsOf(regs, ev.actor)) = 1

\* C3: a wrapped storage call sends its statement at most twice; a statement
\* that is not the first of the call directly follows a reconnect attempt that
\* followed a transient failure; a non-transient error is the end of the call.
C3_BoundedRetry ==
    LET tr == lastCall.trace IN
    /\ Execs(tr) <= 2
    /\ \A i \in 1..Len(tr) :
        /\ (IsExec(tr[i]) /\ i > 1) =>
                /\ i > 2
                /\ tr[i - 1] \in {"connect:ok", "connect:fail"}
                /\ tr[i - 2] \in {"exec:transient", "ensure:raise"}
        /\ tr[i] = "exec:error" => i = Len(tr)

\* a call that sent its statement twice
C3_Witness == Execs(lastCall.trace) = 2 /\ lastCall.trace[1] = "exec:transient"

\* C4: no storage call made through utils raises to the command or handler
\* that made it.
C4_NoExceptionReachesCaller == ~lastCall.raised

\* the store as it would be with a live connection and no fault scheduled
HealthyDB == [DB EXCEPT !.alive = TRUE, !.stale = FALSE, !.faults = <<>>, !.up = TRUE]

\* C5: a call whose first attempt fails transiently and whose second attempt
\* goes through returns what a call that succeeds at once would have returned
\* from the same tables, and leaves the same tables.
C5_IdempotentRetry ==
    [][(/\ lastCall' # lastCall
        /\ dbInst
        /\ lastCall'.trace = <<"exec:transient", "connect:ok", "exec:ok">>)
       => \E ref \in {Wrapped(HealthyDB, lastCall'.stmt)} :
            /\ lastCall'.ret = ref.ret
            /\ regs' = ref.d.regs
            /\ logs' = ref.d.logs]_vars

\* C6: at each of the three transitions, when a row of the member is in the
\* table the handler shows the already-registered outcome, sends no INSERT and
\* the session does not advance.
C6_PreCheckAgainstLiveStore ==
    (ev.h \in FlowHandlers /\ ev.existed /\ ev.outcome # "ineligible")
    => /\ ev.outcome = "already_registered"
       /\ ev.writes = 0

StageOrder == <<"Idle", "Start", "BasicInfoCaptured", "ContactInfoCaptured", "Committed">>

StageIndex(st) == CHOOSE i \in 1..Len(StageOrder) : StageOrder[i] = st

\* C8: a session moves through Start, BasicInfoCaptured, ContactInfoCaptured,
\* Committed one stage at a time in that order, a row is added only by the step
\* that takes a session from ContactInfoCaptured to Committed, and a session
\* that committed never leaves Committed.
C8_StagesInOrderCommitFinal ==
    [][/\ \A s \in Sessions :
            sessions'[s].stage # sessions[s].stage
                => StageIndex(sessions'[s].stage) = StageIndex(sessions[s].stage) + 1
       /\ Len(regs') > Len(regs)
                => \E s \in Sessions : /\ sessions[s].stage = "ContactInfoCaptured"
                                       /\ sessions'[s].stage = "Committed"]_vars

BasicFields == {"nom", "prenom", "photo", "annee_specialite", "matricule"}

\* the validity rules of the five basic-info fields
ValidBasic(f, v) ==
    CASE f \in {"nom", "prenom"} -> Strip(v) # <<>> /\ Len(Strip(v)) <= 100
      [] f = "photo" -> Strip(v) # <<>> /\ Len(Strip(v)) <= 500
      [] f = "annee_specialite" -> Strip(v) # <<>> /\ Len(Strip(v)) <= 150
      [] f = "matricule" -> /\ Strip(v) # <<>>
                            /\ \A i \in 1..Len(Strip(v)) : Strip(v)[i] \in Digits
                            /\ Len(Strip(v)) >= 5

ComplaintField(msg) ==
    CASE msg = "Last Name cannot be empty" -> "nom"
      [] msg = "First Name cannot be empty" -> "prenom"
      [] msg = "Photo URL cannot be empty" -> "photo"
      [] msg = "Year + Field of Study cannot be empty" -> "annee_specialite"
      [] OTHER -> "matricule"

\* C9: a basic-info submission of an eligible unregistered member is answered
\* with one complaint for every invalid field and leaves the session at Start
\* when a field is invalid; it advances exactly when the five fields are valid.
C9_AllComplaintsReported ==
    (ev.h = "RegistrationModal.on_submit" /\ ~ev.existed /\ ev.outcome # "ineligible")
    => LET bad == {f \in BasicFields : ~ValidBasic(f, ev.input[f])} IN
        /\ bad # {} =>
            /\ ev.outcome = "invalid"
            /\ sessions[ev.s].stage = "Start"
            /\ Len(ev.errors) = Cardinality(bad)
            /\ \A f \in bad : \E i \in 1..Len(ev.errors) : ComplaintField(ev.errors[i]) = f
        /\ ev.outcome = "advanced" <=> bad = {}
        /\ ev.outcome = "advanced" => sessions[ev.s].stage = "BasicInfoCaptured"

\* the empty last name together with the non-digit student id
C9_Witness ==
    /\ ev.h = "RegistrationModal.on_submit"
    /\ ~ev.existed
    /\ Len(ev.errors) = 2
    /\ ev.errors[1] = "Last Name cannot be empty"
    /\ sessions[ev.s].stage = "Start"

LengthChecks == {"nom:max100", "prenom:max100", "photo:max500", "annee_specialite:max150"}

ValidData(d) ==
    /\ \A f \in BasicFields : ValidBasic(f, d[f])
    /\ Len(d.phone) = 10 /\ AllIn(d.phone, Digits)
    /\ EmailMatches(d.email) /\ Len(d.email) <= 100

C11_TeamIsOneOfSix == \A i \in 1..Len(regs) : regs[i].team \in TEAMS

\* the digits of a string, in order
DigitsOf(s) == SelectSeq(s, LAMBDA c : c \in Digits)

\* C12: a contact submission that passed the two pre-checks is accepted only if
\* the submitted phone holds exactly 10 digits, and is refused with the
\* digit-count message when it holds another number of digits; the session
\* carries the digits alone, and the phone of every stored row is 10 digits.
C12_PhoneNormalized ==
    /\ (ev.h = "ContactInfoModal.on_submit" /\ ev.outcome \in {"invalid", "advanced"})
        => /\ ev.outcome = "advanced"
                => /\ Len(DigitsOf(ev.input.phone)) = 10
                   /\ sessions[ev.s].data.phone = DigitsOf(ev.input.phone)
           /\ Len(DigitsOf(ev.input.phone)) # 10
                => ev.outcome = "invalid"
           /\ Len(DigitsOf(ev.input.phone)) \in 1..9
                => \E i \in 1..Len(ev.errors) :
                        ev.errors[i] = "Phone number must be exactly 10 digits long"
    /\ \A s \in Sessions :
            DOMAIN sessions[s].data # {}
                => /\ Len(sessions[s].data.phone) = 10
                   /\ \A k \in 1..10 : sessions[s].data.phone[k] \in Digits
    /\ \A i \in 1..Len(regs) :
            Len(regs[i].phone) = 10 /\ \A k \in 1..10 : regs[i].phone[k] \in Digits

\* a 10-character phone with a separator, 9 digits, is refused
C12_Witness ==
    /\ ev.h = "ContactInfoModal.on_submit"
    /\ ev.outcome = "invalid"
    /\ Len(ev.input.phone) = 10
    /\ Len(DigitsOf(ev.input.phone)) = 9
    /\ ev.errors = <<"Phone number must be exactly 10 digits long">>

\* C13: what a session accepted is what it carries (the five basic-info values
\* trimmed, the phone digits, the trimmed email, the id of the member who
\* submitted the contact form), and a row added by a commit holds exactly the
\* values its session carries and the team of the button pressed.
C13_RowCarriesSessionValues ==
    [][/\ (ev' # ev /\ ev'.h = "RegistrationModal.on_submit" /\ ev'.outcome = "advanced")
            => \A f \in {"nom", "prenom", "photo", "annee_specialite", "matricule"} :
                    sessions'[ev'.s].basic[f] = Strip(ev'.input[f])
       /\ (ev' # ev /\ ev'.h = "ContactInfoModal.on_submit" /\ ev'.outcome = "advanced")
            => /\ \A f \in {"nom", "prenom", "photo", "annee_specialite", "matricule"} :
                    sessions'[ev'.s].data[f] = sessions[ev'.s].basic[f]
               /\ sessions'[ev'.s].basic = sessions[ev'.s].basic
               /\ sessions'[ev'.s].data.phone = DigitsOf(ev'.input.phone)
               /\ sessions'[ev'.s].data.email = Strip(ev'.input.email)
               /\ sessions'[ev'.s].data.discord_id = ev'.actor
       /\ Len(regs') > Len(regs)
            => /\ ev'.h = "handle_team_selection"
               /\ Len(regs') = Len(regs) + 1
               /\ \E r \in {regs'[Len(regs')]}, b \in {sessions[ev'.s].basic},
                     d \in {sessions[ev'.s].data} :
                    /\ r.last_name = b.nom /\ r.first_name = b.prenom
                    /\ r.photo = b.photo /\ r.year_major = b.annee_specialite
                    /\ r.student_id = b.matricule
                    /\ r.phone = d.phone /\ r.email = d.email
                    /\ r.discord_id = d.discord_id /\ r.discord_id = sessions[ev'.s].actor
                    /\ r.team = ev'.input]_vars

\* a row holding the second sample submission and the Design team
C13_Witness ==
    /\ regs # <<>>
    /\ regs[1].last_name = <<"C">> /\ regs[1].first_name = <<"D">>
    /\ regs[1].phone = Alt2.phone
    /\ regs[1].email = <<"b", "@", "a", ".", "c", "o", "m">>
    /\ regs[1].team = "Design"
    /\ ev.h = "handle_team_selection" /\ ev.outcome = "committed"

\* C14: the timestamp of a row is the time of the step that stored it, and no
\* later step changes it.
C14_TimestampIsCommitTime ==
    [][/\ Len(regs') > Len(regs) => regs'[Len(regs')].timestamp = now'
       /\ \A i \in 1..Len(regs) :
            (i <= Len(regs') /\ regs'[i].discord_id = regs[i].discord_id)
                => regs'[i].timestamp = regs[i].timestamp]_vars

\* the REGISTRATION entries of member a in the audit log
RegistrationLogs(l, a) ==
    Cardinality({i \in 1..Len(l) : l[i].action = "REGISTRATION" /\ l[i].admin_discord_id = a})

\* C15: a team choice answered with the confirmation adds exactly one
\* REGISTRATION entry of the member and removes the team buttons; a team
\* choice answered otherwise adds none.
C15_OneAuditEntryPerCommit ==
    [][(ev' # ev /\ ev'.h = "handle_team_selection")
       => /\ ev'.outcome = "committed"
                => /\ RegistrationLogs(logs', ev'.actor) = RegistrationLogs(logs, ev'.actor) + 1
                   /\ ~sessions'[ev'.s].tview
          /\ ev'.outcome # "committed"
                => RegistrationLogs(logs', ev'.actor) = RegistrationLogs(logs, ev'.actor)]_vars

\* C16: after a team choice whose write failed, the session still offers the
\* team choice, so that the commit can be retried without a new contact form.
C16_FailedCommitCanBeRetried ==
    (ev.h = "handle_team_selection" /\ ev.outcome = "save_failed")
    => /\ sessions[ev.s].tview
       /\ DOMAIN sessions[ev.s].data # {}

\* C17: a submission on a session that saw no activity for more than 300
\* seconds is answered with the expiry outcome.
C17_IdleSessionExpired ==
    (ev.h \in FlowHandlers \cup {"contact_button"} /\ ev.late) => ev.outcome = "expired"

\* C18: an edit that names a field outside the editable attributes is
\* answered with "Invalid field" at once: no statement sent, no retry,
\* whatever the state of the connection.
C18_InvalidFieldImmediate ==
    (/\ lastCall.stmt.op = "UPDATE"
     /\ ~lastCall.raised
     /\ lastCall.stmt.field \notin field_mapping)
    => /\ lastCall.ret = <<FALSE, "Invalid field">>
       /\ lastCall.trace = <<"invalid_field">>

\* a step of modify_user_registration
IsModifyStep(before, after) == after.stmt.op = "UPDATE" /\ ~after.raised /\ after # before

\* new differs from old at most in the named column of the rows of id
OnlyFieldChanged(old, new, id, field) ==
    /\ Len(new) = Len(old)
    /\ \A i \in 1..Len(old) :
         IF old[i].discord_id = id
         THEN \A f \in DOMAIN old[i] : f # field => new[i][f] = old[i][f]
         ELSE new[i] = old[i]

\* C19: an edit that reports success changes only the named attribute of the
\* rows of the given member and leaves the audit log alone; an edit that
\* reports failure changes nothing.
C19_ModifyFrame ==
    [][IsModifyStep(lastCall, lastCall')
       => /\ logs' = logs
          /\ lastCall'.ret[1]
                => OnlyFieldChanged(regs, regs', lastCall'.stmt.id, lastCall'.stmt.field)
          /\ ~lastCall'.ret[1] => regs' = regs]_vars

\* C20: with a recognised field and a statement that went through at the
\* first attempt, the edit reports success exactly when the member has a row,
\* and "User not found" exactly when the member has none.
C20_SuccessIffRowExists ==
    [][(/\ IsModifyStep(lastCall, lastCall')
        /\ lastCall'.stmt.field \in field_mapping
        /\ lastCall'.trace = <<"exec:ok">>)
       => /\ RowsOf(regs, lastCall'.stmt.id) # {}
                => lastCall'.ret = <<TRUE, "Registration updated successfully">>
          /\ RowsOf(regs, lastCall'.stmt.id) = {}
                => lastCall'.ret = <<FALSE, "User not found in registration database">>]_vars

\* C22: the two buckets are disjoint, together they are exactly the members
\* present that are not registered and hold no excluded role, the first holds
\* those of them with an existing-team role and the second those without.
C22_BucketsPartitionUnregistered ==
    classified.done =>
        \E with \in {Range(classified.members_with_teams)},
           without \in {Range(classified.members_without_teams)},
           concerned \in {{m \in Range(classified.roster) :
                             /\ m \notin classified.registered_ids
                             /\ "excluded" \notin roles[m]}} :
            /\ with \cap without = {}
            /\ with \cup without = concerned
            /\ with = {m \in concerned : "team" \in roles[m]}
            /\ without = {m \in concerned : "team" \notin roles[m]}
            /\ NoRepeat(classified.members_with_teams)
            /\ NoRepeat(classified.members_without_teams)

\* a roster with a registered member, a member with the excluded role, one
\* unregistered member in each bucket
C22_Witness ==
    /\ classified.done
    /\ classified.registered_ids # {}
    /\ Len(classified.roster) < Len(GuildMembers)
    /\ \E m \in Range(classified.roster) \ classified.registered_ids : "excluded" \in roles[m]
    /\ \E m \in Range(classified.members_without_teams) : roles[m] # {}
    /\ classified.members_with_teams # <<>>
    /\ classified.members_without_teams # <<>>

\* the members of the list the loop has reached
Reached(g) == {g.list[j] : j \in 1..(IF g.phase = "loop" THEN g.i ELSE Len(g.list))}

\* s keeps the order of list
InOrderOf(s, list) ==
    \A j, k \in 1..Len(s) : j < k =>
        \E p, q \in 1..Len(list) : p < q /\ list[p] = s[j] /\ list[q] = s[k]

\* C23: at every step of a bulk role grant each member reached so far was
\* handled exactly once, in the order of the bucket: counted as already-had
\* without a call when it held the role, else given one call that counts as
\* success or error; an error does not end the loop, and at the end the three
\* tallies add up to the size of the bucket.
C23_BulkGrantTallies ==
    [][(grant' # grant /\ grant'.phase \in {"loop", "done"})
       => /\ grant'.processed + grant'.already_had + grant'.errors
                = (IF grant'.phase = "loop" THEN grant'.i - 1 ELSE Len(grant'.list))
          /\ NoRepeat(grant'.calls) /\ NoRepeat(grant'.had)
          /\ Range(grant'.calls) \cap Range(grant'.had) = {}
          /\ Range(grant'.calls) \cup Range(grant'.had) = Reached(grant')
          /\ InOrderOf(grant'.calls, grant'.list) /\ InOrderOf(grant'.had, grant'.list)
          /\ Len(grant'.had) = grant'.already_had
          /\ Len(grant'.calls)
                = grant'.processed + grant'.errors + (IF grant'.phase = "loop" THEN 1 ELSE 0)
          /\ \A m \in Range(grant'.had) \ (IF grant.phase = "loop" THEN Range(grant.had) ELSE {}) :
                grant'.role \in roles'[m]
          /\ \A m \in Range(grant'.calls)
                      \ (IF grant.phase = "loop" THEN Range(grant.calls) ELSE {}) :
                grant'.role \notin roles'[m]]_vars

\* a bucket of three: one member had the role, one call failed, and a call
\* after the failed one succeeded
C23_Witness ==
    /\ grant.phase = "done"
    /\ Len(grant.list) = 3
    /\ grant.already_had = 1 /\ grant.errors = 1 /\ grant.processed = 1
    /\ grant.role \notin roles[grant.calls[1]]
    /\ grant.role \in roles[grant.calls[2]]

\* the calls issued by the step: those of kick' that kick did not have
NewKickCalls(before, after) ==
    {after.calls[j] : j \in (IF before.phase = "loop" THEN Len(before.calls) ELSE 0) + 1
                                ..Len(after.calls)}

\* C24: no kick is issued to a bot, to a member with the administrator
\* permission or to a member at or above the bot's top role, and every member
\* of the bucket that the filter removed is in the skipped list.
C24_FilteredMembersAreReported ==
    [][kick' # kick
       => /\ \A m \in NewKickCalls(kick, kick') :
                /\ m \notin Bots
                /\ ~IsAdministrator(roles'[m])
                /\ ~AtOrAboveBot(roles'[m])
          /\ Len(kick'.skipped) = Len(kick'.bucket) - Len(kick'.list)
          /\ {e[1] : e \in Range(kick'.skipped)}
                = Range(kick'.bucket) \ Range(kick'.list)]_vars

\* C25: a kick is issued only after the confirm button of a view that was
\* shown and had not timed out; a cancelled or timed-out view issues none and
\* stays without effect; one confirmation runs one pass over the list.
C25_NoKickWithoutConfirm ==
    [][/\ (kick.phase = "preview" /\ now - kick.viewAt > ConfirmationViewTimeout)
            => (kick' = kick /\ left' = left)
       /\ kick.phase = "cancelled" => (kick' = kick /\ left' = left)
       /\ kick'.phase \in {"idle", "preview", "cancelled"}
            => (kick'.calls = <<>> /\ left' = left)
       /\ left' # left => (kick.phase = "loop" /\ kick.passes = 1)
       /\ kick'.passes <= 1
       /\ NoRepeat(kick'.calls)
       /\ Range(kick'.calls) \subseteq Range(kick'.list)]_vars

\* a preview left unanswered past the timeout
C25_Witness ==
    /\ kick.phase = "preview"
    /\ now - kick.viewAt > ConfirmationViewTimeout
    /\ Len(kick.list) >= 2
    /\ left = {}

\* C26: when a confirmed batch ends, every member of the list was attempted
\* once in list order, kicked + errors is the size of the list, and the step
\* adds one DEADLINE_ENFORCEMENT entry with that tally to the audit log.
C26_BatchTallyAndOneAuditEntry ==
    [][(kick.phase = "loop" /\ kick'.phase = "done")
       => /\ kick'.calls = kick'.list
          /\ kick'.processed + kick'.errors = Len(kick'.list)
          /\ logs' = Append(logs, LogEntryWith("DEADLINE_ENFORCEMENT", kick'.by,
                                               <<kick'.processed, kick'.errors>>))]_vars

\* Reading a CSV file back (excel dialect): fields split at commas outside
\* quotes, records at line ends outside quotes, doubled quotes undone.
\* The reader takes one field at a time.
LineEnds == {"\r", "\n"}

\* where the unquoted text that starts at position i stops: at the next comma
\* or line end, or past the end of the file
PlainEnd(f, i) ==
    IF \E j \in i..Len(f) : f[j] \in LineEnds \union {","}
    THEN CHOOSE j \in i..Len(f) :
            /\ f[j] \in LineEnds \union {","}
            /\ \A k \in i..(j - 1) : f[k] \notin LineEnds \union {","}
    ELSE Len(f) + 1

\* position j closes the quoted text opened at position i: a quote that is
\* not the first half of a doubled quote
ClosesQuote(f, i, j) ==
    /\ f[j] = "\""
    /\ Cardinality({k \in (i + 1)..j : f[k] = "\""}) % 2 = 1
    /\ j = Len(f) \/ f[j + 1] # "\""

QuoteClose(f, i) ==
    IF \E j \in (i + 1)..Len(f) : ClosesQuote(f, i, j)
    THEN CHOOSE j \in (i + 1)..Len(f) :
            /\ ClosesQuote(f, i, j)
            /\ \A k \in (i + 1)..(j - 1) : ~ClosesQuote(f, i, k)
    ELSE Len(f) + 1

RECURSIVE Unquote(_)
Unquote(s) ==
    IF s = <<>> THEN <<>>
    ELSE IF Len(s) >= 2 /\ s[1] = "\"" /\ s[2] = "\""
    THEN <<"\"">> \o Unquote(SubSeq(s, 3, Len(s)))
    ELSE <<Head(s)>> \o Unquote(Tail(s))

\* the field that starts at position i, and the position of what ends it
QuotedField(f, i, q) ==
    [cell |-> Unquote(SubSeq(f, i + 1, q - 1))
                \o SubSeq(f, q + 1, PlainEnd(f, q + 1) - 1),
     next |-> PlainEnd(f, q + 1)]

ReadField(f, i) ==
    IF f[i] = "\"" THEN QuotedField(f, i, QuoteClose(f, i))
    ELSE [cell |-> SubSeq(f, i, PlainEnd(f, i) - 1), next |-> PlainEnd(f, i)]

\* the position after the line end at position i; "\r\n" is one line end
AfterLineEnd(f, i) ==
    IF f[i] = "\r" /\ i < Len(f) /\ f[i + 1] = "\n" THEN i + 2 ELSE i + 1

RECURSIVE Parse(_, _, _, _, _)
ParseAfter(f, r, row, rows) ==
    IF r.next > Len(f) THEN Append(rows, Append(row, r.cell))
    ELSE IF f[r.next] = ","
    THEN Parse(f, r.next + 1, FALSE, Append(row, r.cell), rows)
    ELSE Parse(f, AfterLineEnd(f, r.next), TRUE, <<>>, Append(rows, Append(row, r.cell)))

\* bol: position i is the start of a record
Parse(f, i, bol, row, rows) ==
    IF i > Len(f)
    THEN IF bol THEN rows ELSE Append(rows, Append(row, <<>>))
    ELSE IF bol /\ f[i] \in LineEnds
    THEN Parse(f, AfterLineEnd(f, i), TRUE, <<>>, Append(rows, <<>>))
    ELSE ParseAfter(f, ReadField(f, i), row, rows)

ParseCsv(file) == Parse(file, 1, TRUE, <<>>, <<>>)

\* a step of export_to_csv whose SELECT was answered, at the first attempt or
\* at the retry
IsExportStep(before, after, fileBefore, fileAfter) ==
    /\ after.stmt.op = "EXPORT"
    /\ after.trace # <<>>
    /\ after.trace[Len(after.trace)] = "exec:ok"
    /\ after # before \/ fileAfter # fileBefore

\* C27: on an empty table the export returns False and leaves the file alone;
\* on a non-empty one it returns True and the file holds the header and one
\* record of ten fields per row, newest timestamp first, the id in the eighth
\* field and the timestamp in the tenth.
C27_ExportHeaderRowsOrder ==
    [][IsExportStep(lastCall, lastCall', csv, csv')
       => /\ regs = <<>> => (lastCall'.ret = FALSE /\ csv' = csv)
          /\ regs # <<>>
                => /\ lastCall'.ret = TRUE
                   /\ \E p \in {ParseCsv(csv')} :
                        /\ Len(p) = 1 + Len(regs)
                        /\ p[1] = HeaderCells
                        /\ \A j \in 2..Len(p) : Len(p[j]) = Len(ExportColumns)
                        /\ \E s \in Orderings(regs) :
                             /\ \A j, k \in 1..Len(s) :
                                    j < k => s[j].timestamp >= s[k].timestamp
                             /\ \A j \in 1..Len(s) :
                                    /\ p[j + 1][8] = <<s[j].discord_id>>
                                    /\ p[j + 1][10] = IsoFormat(s[j].timestamp)]_vars

\* two rows whose insertion order is the reverse of the export order
C27_Witness ==
    /\ lastCall.stmt.op = "EXPORT"
    /\ lastCall.trace = <<"exec:ok">>
    /\ lastCall.ret = TRUE
    /\ Len(regs) = 2
    /\ regs[1].timestamp < regs[2].timestamp
    /\ csv = CsvFile(<<regs[2], regs[1]>>)

\* the position of a column in the header read back
ColumnAt(header, col) == CHOOSE j \in 1..Len(header) : header[j] = <<col>>

\* C28: reading the exported file back gives, for every stored row, exactly
\* one record with the same ten values under the ten column names, and no
\* other record.
C28_ExportRoundTrip ==
    [][(IsExportStep(lastCall, lastCall', csv, csv') /\ regs # <<>>)
       => \E p \in {ParseCsv(csv')} :
            /\ Range(p[1]) = Range(HeaderCells)
            /\ Len(p) = 1 + Len(regs)
            /\ \A i \in 1..Len(regs) :
                 Cardinality({j \in 2..Len(p) :
                    /\ Len(p[j]) = Len(p[1])
                    /\ \A col \in Range(ExportColumns) :
                         p[j][ColumnAt(p[1], col)] = CellText(regs[i], col)}) = 1]_vars

\* an exported store with a comma, a quote and a line break in its values
C28_Witness ==
    /\ lastCall.stmt.op = "EXPORT"
    /\ lastCall.trace = <<"exec:ok">>
    /\ csv # NoFile
    /\ Len(regs) = 2
    /\ \E i \in 1..Len(regs) : "\n" \in Range(regs[i].last_name)
    /\ \E i \in 1..Len(regs) : {",", "\""} \subseteq Range(regs[i].year_major)
    /\ ParseCsv(csv)[1] = HeaderCells

\* the members that have a row
StoredIds(rs) == {rs[i].discord_id : i \in 1..Len(rs)}

\* a member's row differs between the two tables
Altered(old, new) ==
    \E i \in 1..Len(old) : \E j \in 1..Len(new) :
        old[i].discord_id = new[j].discord_id /\ old[i] # new[j]

\* C21: a row appears only in a final-stage commit that reports success, a
\* row's values change only in an admin field edit, and a row disappears only
\* in a confirmed admin delete; no other step adds, alters or removes a row.
C21_RegistrationFrame ==
    [][/\ StoredIds(regs') \ StoredIds(regs) # {}
            => ChooseTeamIT1 /\ ev'.outcome = "committed"
       /\ Altered(regs, regs') => AdminModify
       /\ StoredIds(regs) \ StoredIds(regs') # {} => AdminConfirm]_vars

\* C29: in every step the audit log keeps the entries it had, unchanged and
\* in their order: the log before the step is a prefix of the log after it.
C29_AuditLogAppendOnly ==
    [][Len(logs') >= Len(logs) /\ SubSeq(logs', 1, Len(logs)) = logs]_vars

\* two different entries were logged, one after the other
C29_Witness ==
    /\ Len(logs) = 2
    /\ logs[1].action = "REGISTRATION"
    /\ logs[2].action = "DELETE_REGISTRATION"

\* C30: once the connection at boot has failed, the process handles no
\* interaction and no admin command: no later step answers a command, grants
\* a role or sends a statement to the store.
C30_FailedBootServesNothing ==
    [][boot = "failed" => ev' = ev /\ grant' = grant /\ lastCall' = lastCall]_vars

\* C31: ensure_connection never raises to its caller, also when the ping and
\* the reconnect that follows both fail.
C31_EnsureConnectionNeverRaises ==
    lastCall.stmt.op = "ENSURE" => lastCall.trace # <<"ensure:raise">>

\* C32: while the keepalive runs and nothing else uses the store, a ping or a
\* reconnect was sent at most 120 s ago.
C32_ProbeEvery120Seconds ==
    keep.running => now - keep.lastProbe <= KeepaliveSeconds

\* a call of save_registration
IsSaveStep == lastCall' # lastCall /\ lastCall'.stmt.op = "INSERT_REG"

\* C33: a save_registration that returns False leaves the registrations
\* table as it was before the call.
C33_FailedSaveLeavesNoRow ==
    [][(IsSaveStep /\ ~lastCall'.raised /\ lastCall'.ret = FALSE) => regs' = regs]_vars

\* C34: the second run of a bulk role grant on the same guild and table
\* issues no grant call, counts nobody as newly assigned, counts every member
\* of the first run's bucket as already-had, and changes no member's roles.
C34_SecondRunIdempotent ==
    [][(grant' # grant /\ grant'.run = 2)
       => /\ grant'.calls = <<>>
          /\ grant'.processed = 0
          /\ grant'.list = grant'.first.list
          /\ grant'.phase = "done" => grant'.already_had = Len(grant'.list)
          /\ roles' = roles]_vars

\* the DELETE_REGISTRATION entries of the log
DeleteLogs(l) == Cardinality({i \in 1..Len(l) : l[i].action = "DELETE_REGISTRATION"})

\* C35: a confirmed delete that reports success leaves the member without a
\* row and adds exactly one DELETE_REGISTRATION entry; one that reports
\* failure adds no entry.
C35_DeleteThenOneAuditEntry ==
    [][(ev' # ev /\ ev'.h = "confirm_delete")
       => /\ ev'.outcome = "deleted"
                => /\ RowsOf(regs', ev'.actor) = {}
                   /\ DeleteLogs(logs') = DeleteLogs(logs) + 1
          /\ ev'.outcome = "delete_failed" => logs' = logs]_vars

\* C36: no kick call goes to a member who has a row in the table at the
\* moment the call is issued.
C36_NoKickOfRegistered ==
    [][kick' # kick => \A m \in NewKickCalls(kick, kick') : RowsOf(regs, m) = {}]_vars

\* a result of get_registration_stats whose parts agree
RECURSIVE SumCounts(_)
SumCounts(f) ==
    IF DOMAIN f = {} THEN 0
    ELSE LET t == CHOOSE x \in DOMAIN f : TRUE
         IN f[t] + SumCounts([y \in DOMAIN f \ {t} |-> f[y]])

StatsConsistent(r) ==
    /\ r.total = SumCounts(r.teams)
    /\ r.latest # <<>> =>
          /\ r.total >= 1
          /\ r.latest[1].team \in DOMAIN r.teams

\* C37: at most one thread is inside a storage method on the shared
\* connection at any time
C37_OneOperationAtATime == Cardinality(InProgress) <= 1

\* C38: every result get_registration_stats returns has a total equal to the
\* sum of its per-team counts and a latest row that is counted in them
C38_StatsConsistent == lastCall.stmt.op = "STATS" => StatsConsistent(lastCall.ret)

\* C39: the team choices of one session store at most one Registration and
\* write at most one REGISTRATION audit entry, and a session that has
\* committed commits nothing more
C39_OneWritePerSession ==
    [][/\ Cardinality(RowsOf(regs', "u1")) <= 1
       /\ RegistrationLogs(logs', "u1") <= 1
       /\ (sessions'[1] # sessions[1] /\ ev'.h = "handle_team_selection"
            /\ ev'.outcome = "committed") => sessions[1].stage # "Committed"]_vars

\* C40: a command invoked by a member without an admin role is answered "no
\* permission" and leaves the store, the audit log, the file, the roles, the
\* guild and every command in progress as they were, with no storage call made
C40_NoPermissionNoEffect ==
    [][\A a \in Actors : ("admin" \notin roles[a] /\ CommandBy(a)) =>
            /\ ev'.outcome = "no_permission"
            /\ UNCHANGED <<regs, logs, dbInst, connAlive, stale, faults, lastCall, csv, roles,
                           left, grant, kick, delViews, viewsLoaded>>]_vars

\* a plain member has invoked an admin command on a store that holds a row
C40_Witness ==
    /\ ev.outcome = "no_permission"
    /\ ev.h \in OneStepCommands \cup {"assign_role", "kick_new_members", "delete_registration"}
    /\ regs # <<>>
    /\ dbInst

====
